---- MODULE Spec2Model ----
(***************************************************************************)
(* Forecasting pipeline of the dashboard (forecasting.py), with its        *)
(* backtest and its insight text, and the geocoding cache                  *)
(* (geocoding_service.py):                                                 *)
(* generate_forecast = daily aggregation, model prediction, the            *)
(* post-processing rules (optimistic bias, sustainability floor, organic   *)
(* noise, non-negativity) and the Historical + Forecast result frame.      *)
(*                                                                         *)
(* Numbers are exact rationals <<numerator, denominator>> in lowest terms  *)
(* with a positive denominator; <<0, 0>> stands for NaN (the mean or the   *)
(* standard deviation pandas cannot compute).  A standard deviation is     *)
(* kept as its sign and its square, so no square root is approximated.     *)
(* A timestamp is a record [day, tod] (calendar day, time of day); a       *)
(* midnight timestamp is identified with its day number.                   *)
(***************************************************************************)
EXTENDS Integers, Sequences, FiniteSets, TLC

VARIABLES
    df,                  \* input rows: sequence of [date |-> [day, tod], value |-> Int]
    algorithm,           \* the algorithm name passed by the caller
    full_horizon_days,   \* the requested horizon
    PROPHET_AVAILABLE,   \* module flag set by the guarded import of prophet
    STATSMODELS_AVAILABLE, \* module flag set by the guarded import of statsmodels
    pc,                  \* position inside generate_forecast
    daily,               \* gap-filled daily series: sequence of [date, value]
    future_dates,        \* the horizon dates after the last historical date
    forecast_values,     \* raw model output
    lib_called,          \* which model library was invoked ("none" if none)
    model,               \* the ExponentialSmoothing models built and fitted, in order
    recent_avg,          \* mean of the trailing 30-day window (0 if NaN)
    bias_percentage,     \* multiplicative lift chosen by the bias rule
    biased_forecast,     \* adjusted_forecast as assigned at the bias rule
    adjusted_forecast,   \* adjusted_forecast as re-assigned at the floor rule
    floor,               \* the sustainability floor
    hist_std,            \* standard deviation used for the noise (sign and square)
    noise_scale,         \* the scale handed to np.random.normal (sign and square)
    noise,               \* the noise vector drawn by np.random.normal
    final_values,        \* values after noise and the non-negativity clamp
    final_df,            \* the returned frame: sequence of [date, value, Type]
    error,               \* the exception raised, "none" if none
    \* run_backtest
    backtest_df,         \* input rows of run_backtest
    test_days,           \* the number of trailing days held out
    backtest_pc,         \* position inside run_backtest ("idle": not called)
    backtest_daily,      \* run_backtest's own gap-filled daily series
    train_df,            \* daily.iloc[:-test_days]
    test_df,             \* daily.iloc[-test_days:]
    comparison,          \* the merged table: sequence of [date, actual, predicted]
    mae,                 \* mean absolute error
    rmse,                \* root mean squared error (sign and square)
    mape,                \* mean absolute percentage error
    train_last_date,     \* train_df[date_col].max()
    backtest_error,      \* the exception run_backtest raised, "none" if none
    \* generate_smart_insights
    insights_df,         \* historical rows given to generate_smart_insights
    forecast_df,         \* the forecast frame given to it: [has_type, rows]
    insights_pc,         \* position inside generate_smart_insights ("idle": not called)
    insights_daily,      \* its per-date sums, sorted by date (no gap filling)
    insights_recent_avg, \* daily.tail(7).mean()
    prev_avg,            \* daily.iloc[-14:-7].mean()
    trend_pct,           \* percentage change of recent_avg over prev_avg
    future_sum,          \* sum of the Forecast-tagged values
    future_daily_avg,    \* mean of the Forecast-tagged values
    horizon_days,        \* number of Forecast-tagged rows
    trend_desc,          \* the trend labels written into the text, in order
    insight,             \* the outlook sentences written into the text, in order
    text,                \* the returned text: the sentinel or "analysis"
    insights_error,      \* the exception generate_smart_insights raised, "none" if none
    \* GeocodingService.get_coords
    cache,               \* the cache table: key -> [lat, lon]
    city,                \* the city argument of the last call
    state,               \* the state argument of the last call
    geocoder_queries,    \* the queries sent to the external geocoder, in order
    coords,              \* what the last call returned: [lat, lon]
    outcome,             \* the path the last call took ("none": no call yet)
    calls                \* the number of get_coords calls made

vars == <<df, algorithm, full_horizon_days, PROPHET_AVAILABLE, STATSMODELS_AVAILABLE,
          pc, daily, future_dates, forecast_values, lib_called, model,
          recent_avg, bias_percentage, biased_forecast, adjusted_forecast, floor, hist_std,
          noise_scale, noise, final_values, final_df, error,
          backtest_df, test_days, backtest_pc, backtest_daily, train_df, test_df,
          comparison, mae, rmse, mape, train_last_date, backtest_error,
          insights_df, forecast_df, insights_pc, insights_daily, insights_recent_avg,
          prev_avg, trend_pct, future_sum, future_daily_avg, horizon_days, trend_desc,
          insight, text, insights_error,
          cache, city, state, geocoder_queries, coords, outcome, calls>>

inputs == <<df, algorithm, full_horizon_days, PROPHET_AVAILABLE, STATSMODELS_AVAILABLE>>

backtest_vars == <<backtest_df, test_days, backtest_pc, backtest_daily, train_df, test_df,
                   comparison, mae, rmse, mape, train_last_date, backtest_error>>

insights_vars == <<insights_df, forecast_df, insights_pc, insights_daily,
                   insights_recent_avg, prev_avg, trend_pct, future_sum, future_daily_avg,
                   horizon_days, trend_desc, insight, text, insights_error>>

geocoding_vars == <<cache, city, state, geocoder_queries, coords, outcome, calls>>

\* the variables of the functions around generate_forecast
callers == <<backtest_vars, insights_vars, geocoding_vars>>

----------------------------------------------------------------------------
(* Program constants (constants.py and the literals of forecasting.py).    *)

ALGORITHM_PROPHET == "Prophet (Facebook AI)"
ALGORITHM_HOLT_WINTERS == "Holt-Winters (Sazonal)"
UI_LABEL_FORECAST == "Previsão"
UI_LABEL_HISTORY == "Histórico"
ERR_MSG_PROPHET_NOT_INSTALLED == "Biblioteca Prophet não instalada."
ERR_MSG_STATSMODELS_NOT_INSTALLED == "Biblioteca statsmodels não instalada."

RecentWindow == 30

----------------------------------------------------------------------------
(* Bounds of the explored inputs.                                          *)

MaxObs == 2          \* rows of a small arbitrary input
MaxDay == 2          \* small inputs use the calendar days 0..MaxDay
MaxGap == 2          \* sparse inputs: two rows up to MaxGap days apart
MaxHorizon == 2      \* horizons 0..MaxHorizon
MaxHistLen == 31     \* longest dense (one row per day) history
MaxPrefix == 1       \* days of a dense history that carry its first value

----------------------------------------------------------------------------
(* Exact rational arithmetic.                                              *)

Abs(x) == IF x < 0 THEN -x ELSE x

Sign(x) == IF x < 0 THEN -1 ELSE IF x = 0 THEN 0 ELSE 1

RECURSIVE GCD(_, _)
GCD(a, b) == IF b = 0 THEN a ELSE GCD(b, a % b)

NaN == <<0, 0>>

Norm(n, d) ==
    IF d = 0 THEN NaN
    ELSE LET g == GCD(Abs(n), Abs(d))
             s == IF d < 0 THEN -1 ELSE 1
         IN <<(s * n) \div g, (s * d) \div g>>

Q(n) == <<n, 1>>
IsNaN(a) == a[2] = 0
QAdd(a, b) == IF IsNaN(a) \/ IsNaN(b) THEN NaN ELSE Norm(a[1] * b[2] + b[1] * a[2], a[2] * b[2])
QSub(a, b) == IF IsNaN(a) \/ IsNaN(b) THEN NaN ELSE Norm(a[1] * b[2] - b[1] * a[2], a[2] * b[2])
QMul(a, b) == IF IsNaN(a) \/ IsNaN(b) THEN NaN ELSE Norm(a[1] * b[1], a[2] * b[2])
QDiv(a, b) == IF IsNaN(a) \/ IsNaN(b) THEN NaN ELSE Norm(a[1] * b[2], a[2] * b[1])
\* comparisons with NaN are false, as in Python
QLt(a, b) == ~IsNaN(a) /\ ~IsNaN(b) /\ a[1] * b[2] < b[1] * a[2]
QLe(a, b) == ~IsNaN(a) /\ ~IsNaN(b) /\ a[1] * b[2] <= b[1] * a[2]

\* Python's max(a, b) and min(a, b): the first argument unless the second beats it
PyMax(a, b) == IF QLt(a, b) THEN b ELSE a
PyMin(a, b) == IF QLt(b, a) THEN b ELSE a


----------------------------------------------------------------------------
(* Series helpers (pandas Series.sum, mean, tail, std).                    *)

RECURSIVE SeqSum(_)
SeqSum(s) == IF s = <<>> THEN 0 ELSE Head(s) + SeqSum(Tail(s))

RECURSIVE SeqSumSq(_)
SeqSumSq(s) == IF s = <<>> THEN 0 ELSE Head(s) * Head(s) + SeqSumSq(Tail(s))

\* Series.mean(): NaN for an empty series
Mean(s) == Norm(SeqSum(s), Len(s))

\* Series.tail(n): the last min(n, len) entries
TailN(s, n) == IF Len(s) <= n THEN s ELSE SubSeq(s, Len(s) - n + 1, Len(s))

\* a real number known by its sign and its square
RootNaN == [sgn |-> 0, sq |-> NaN]
RootOfSquare(q) == [sgn |-> Sign(q[1]), sq |-> q]
RootOf(q) == IF IsNaN(q) THEN RootNaN ELSE [sgn |-> Sign(q[1]), sq |-> QMul(q, q)]
RootTimes(r, c) ==
    IF IsNaN(r.sq) THEN RootNaN
    ELSE [sgn |-> r.sgn * Sign(c[1]), sq |-> QMul(r.sq, QMul(c, c))]

\* Series.std(): sample standard deviation (ddof = 1), NaN below two entries
Std(s) ==
    IF Len(s) < 2 THEN RootNaN
    ELSE RootOfSquare(Norm(Len(s) * SeqSumSq(s) - SeqSum(s) * SeqSum(s),
                           Len(s) * (Len(s) - 1)))

Values(series) == [i \in DOMAIN series |-> series[i].value]

----------------------------------------------------------------------------
(* Daily aggregation.                                                      *)

\* Series.dt.date: the calendar day of a timestamp
DateOf(ts) == ts.day

GroupKeys(rows) == {DateOf(rows[i].date) : i \in DOMAIN rows}

\* groupby(date)[value].first(): the first row of a date instead of the sum
RECURSIVE GroupFirst(_, _)
GroupFirst(rows, k) ==
    IF rows = <<>> THEN 0
    ELSE IF DateOf(Head(rows).date) = k THEN Head(rows).value
         ELSE GroupFirst(Tail(rows), k)

RECURSIVE GroupSum(_, _)
GroupSum(rows, k) ==
    IF rows = <<>> THEN 0
    ELSE (IF DateOf(Head(rows).date) = k THEN Head(rows).value ELSE 0)
         + GroupSum(Tail(rows), k)

\* groupby(date)[value].sum(): one sum per distinct date
GroupBySum(rows) == [k \in GroupKeys(rows) |-> GroupSum(rows, k)]

MinKey(S) == CHOOSE x \in S : \A y \in S : x <= y
MaxKey(S) == CHOOSE x \in S : \A y \in S : x >= y

\* pd.date_range(lo, hi): every day from lo to hi
date_range(lo, hi) == [i \in 1..(hi - lo + 1) |-> lo + i - 1]

\* set_index(date).reindex(idx, fill_value=0).reset_index()
Reindex(grouped, idx) ==
    [i \in DOMAIN idx |->
        [date |-> idx[i],
         value |-> IF idx[i] \in DOMAIN grouped THEN grouped[idx[i]] ELSE 0]]

\* an aggregation whose date range runs over the days with a non-zero sum only
AggregateDaily_non_zero(rows) ==
    LET grouped == GroupBySum(rows)
        kept == {k \in DOMAIN grouped : grouped[k] # 0}
        span == IF kept = {} THEN {MinKey(DOMAIN grouped)} ELSE kept
    IN Reindex(grouped, date_range(MinKey(span), MaxKey(span)))

\* lines 59-67 (and 189-196): per-day sums, reindexed over the whole date range
AggregateDaily(rows) ==
    LET grouped == GroupBySum(rows)
    IN Reindex(grouped, date_range(MinKey(DOMAIN grouped), MaxKey(DOMAIN grouped)))

\* future dates that start on the last historical date: range(0, horizon)
FutureDates_from_last(last_date, horizon) == [x \in 1..horizon |-> last_date + x - 1]

\* last_date + timedelta(days = x) for x in range(1, horizon + 1)
FutureDates(last_date, horizon) == [x \in 1..horizon |-> last_date + x]

----------------------------------------------------------------------------
(* Model output and post-processing rules.                                 *)

\* [x] * n
Repeat(x, n) == [i \in 1..n |-> x]

BIAS_CAP == <<1, 5>>           \* 0.20
FLOOR_RATIO == <<2, 5>>        \* 0.4
DEFAULT_STD_RATIO == <<1, 10>> \* 0.1
NOISE_RATIO == <<3, 10>>       \* 0.3

\* the mean of the whole history instead of its last 30 days
RecentAvg_whole_history(series) ==
    LET m == Mean(Values(series))
    IN IF IsNaN(m) THEN Q(0) ELSE m

RecentAvg(series) ==
    LET m == Mean(Values(TailN(series, RecentWindow)))
    IN IF IsNaN(m) THEN Q(0) ELSE m

FirstForecast(values) == IF Len(values) > 0 THEN values[1] ELSE Q(0)

\* the bias rule without its 20% cap
BiasPercentage_uncapped(values, avg) ==
    LET first_forecast == FirstForecast(values)
    IN IF QLt(first_forecast, avg) /\ QLt(Q(0), first_forecast)
       THEN QDiv(QSub(avg, first_forecast), first_forecast)
       ELSE Q(0)

BiasPercentage(values, avg) ==
    LET first_forecast == FirstForecast(values)
    IN IF QLt(first_forecast, avg) /\ QLt(Q(0), first_forecast)
       THEN PyMin(QDiv(QSub(avg, first_forecast), first_forecast), BIAS_CAP)
       ELSE Q(0)

\* a lift applied to the first value only
ApplyBias_first_only(values, bias) ==
    [i \in DOMAIN values |-> IF i = 1 THEN QMul(values[i], QAdd(Q(1), bias)) ELSE values[i]]

ApplyBias(values, bias) == [i \in DOMAIN values |-> QMul(values[i], QAdd(Q(1), bias))]

Floor(avg) == QMul(avg, FLOOR_RATIO)

\* a floor rule that is skipped
ApplyFloor_skipped(values, fl) == values

ApplyFloor(values, fl) == [i \in DOMAIN values |-> PyMax(values[i], fl)]

\* the standard deviation of the last 30 days instead of the whole history
HistStd_window(series, avg) ==
    LET s == Std(Values(TailN(series, RecentWindow)))
    IN IF IsNaN(s.sq) \/ s.sgn = 0 THEN RootOf(QMul(avg, DEFAULT_STD_RATIO)) ELSE s

HistStd(series, avg) ==
    LET s == Std(Values(series))
    IN IF IsNaN(s.sq) \/ s.sgn = 0 THEN RootOf(QMul(avg, DEFAULT_STD_RATIO)) ELSE s

NoiseScale(std) == RootTimes(std, NOISE_RATIO)

\* the loop without its non-negativity clamp
AddNoise_unclamped(values, ns) ==
    [i \in 1..(IF Len(values) <= Len(ns) THEN Len(values) ELSE Len(ns)) |->
        QAdd(values[i], ns[i])]

\* zip(adjusted_forecast, noise): max(0, val + n)
AddNoiseAndClamp(values, ns) ==
    [i \in 1..(IF Len(values) <= Len(ns) THEN Len(values) ELSE Len(ns)) |->
        PyMax(Q(0), QAdd(values[i], ns[i]))]

ForecastFrame(dates, values) ==
    [i \in DOMAIN dates |-> [date |-> dates[i], value |-> values[i], Type |-> UI_LABEL_FORECAST]]

HistoryFrame(series) ==
    [i \in DOMAIN series |->
        [date |-> series[i].date, value |-> Q(series[i].value), Type |-> UI_LABEL_HISTORY]]

\* a concatenation that puts the forecast first
ConcatFrames_reversed(history, forecast) == forecast \o history

\* pd.concat([daily, forecast_df], ignore_index=True)
ConcatFrames(history, forecast) == history \o forecast

----------------------------------------------------------------------------
(* Inputs.                                                                 *)

TimesOfDay == {"00:00", "13:30"}
SmallVals == {-1, 0, 2}
DenseVals == {0, 2}
\* names that match neither constant: the tests' one, and the docstring's short one
UNKNOWN_ALGO == "UNKNOWN_ALGO"
SHORT_PROPHET == "Prophet"
Algorithms == {ALGORITHM_PROPHET, ALGORITHM_HOLT_WINTERS, UNKNOWN_ALGO, SHORT_PROPHET}

\* values a model library may predict, and values a noise draw may take
RawVals == {Q(0), Q(1), <<9, 5>>}
NoiseVals == {Q(-4), Q(0), Q(1)}

Timestamps == [day : 0..MaxDay, tod : TimesOfDay]
Rows == [date : Timestamps, value : SmallVals]

\* small arbitrary frames: repeated dates, any order, gaps, the empty frame
SmallInputs == UNION {[1..n -> Rows] : n \in 0..MaxObs}

Row(day, tod, value) == [date |-> [day |-> day, tod |-> tod], value |-> value]

\* two rows gap days apart (the same day for gap 0), in either order
SparseInputs ==
    {<<Row(0, "00:00", v1), Row(gap, "13:30", v2)>> :
        gap \in 0..MaxGap, v1 \in SmallVals, v2 \in SmallVals}
    \cup {<<Row(gap, "13:30", v2), Row(0, "00:00", v1)>> :
        gap \in 1..MaxGap, v1 \in SmallVals, v2 \in SmallVals}
    \cup {<<Row(0, "13:30", v)>> : v \in SmallVals}
    \cup {<<>>}

\* one row per day over len days: value v1 on the first a days, v2 afterwards
Dense(len, a, v1, v2) ==
    [i \in 1..len |-> Row(i - 1, "00:00", IF i <= a THEN v1 ELSE v2)]

DenseInputs ==
    {Dense(len, a, v1, v2) :
        len \in (MaxHistLen - 2)..MaxHistLen, a \in 0..MaxPrefix,
        v1 \in DenseVals, v2 \in DenseVals}

\* the locals of generate_forecast before it runs
ForecastLocals ==
    /\ daily = <<>>
    /\ future_dates = <<>>
    /\ forecast_values = <<>>
    /\ lib_called = "none"
    /\ model = <<>>
    /\ recent_avg = Q(0)
    /\ bias_percentage = Q(0)
    /\ biased_forecast = <<>>
    /\ adjusted_forecast = <<>>
    /\ floor = Q(0)
    /\ hist_std = RootNaN
    /\ noise_scale = RootNaN
    /\ noise = <<>>
    /\ final_values = <<>>
    /\ final_df = <<>>
    /\ error = "none"

\* the locals of run_backtest before it runs
BacktestLocals ==
    /\ backtest_daily = <<>>
    /\ train_df = <<>>
    /\ test_df = <<>>
    /\ comparison = <<>>
    /\ mae = NaN
    /\ rmse = RootNaN
    /\ mape = NaN
    /\ train_last_date = -1
    /\ backtest_error = "none"

\* run_backtest is not called
BacktestIdle ==
    /\ backtest_df = <<>>
    /\ test_days = 0
    /\ backtest_pc = "idle"
    /\ BacktestLocals

\* the locals of generate_smart_insights before it runs
InsightsLocals ==
    /\ insights_daily = <<>>
    /\ insights_recent_avg = NaN
    /\ prev_avg = NaN
    /\ trend_pct = Q(0)
    /\ future_sum = Q(0)
    /\ future_daily_avg = NaN
    /\ horizon_days = 0
    /\ trend_desc = <<>>
    /\ insight = <<>>
    /\ text = "none"
    /\ insights_error = "none"

\* generate_smart_insights is not called
InsightsIdle ==
    /\ insights_df = <<>>
    /\ forecast_df = [has_type |-> FALSE, rows |-> <<>>]
    /\ insights_pc = "idle"
    /\ InsightsLocals

\* the pair (None, None)
NoCoords == [lat |-> "None", lon |-> "None"]

\* a fresh cache table and no get_coords call made
GeocodingIdle ==
    /\ cache = <<>>
    /\ city = <<>>
    /\ state = <<>>
    /\ geocoder_queries = <<>>
    /\ coords = NoCoords
    /\ outcome = "none"
    /\ calls = 0

InitOver(frames) ==
    /\ df \in frames
    /\ algorithm \in Algorithms
    /\ full_horizon_days \in 0..MaxHorizon
    /\ PROPHET_AVAILABLE \in BOOLEAN
    /\ STATSMODELS_AVAILABLE \in BOOLEAN
    /\ pc = "start"
    /\ ForecastLocals
    /\ BacktestIdle
    /\ InsightsIdle
    /\ GeocodingIdle

Init == InitOver(SparseInputs \cup DenseInputs)

InitAggregation == InitOver(SmallInputs)

----------------------------------------------------------------------------
(* generate_forecast, step by step.                                        *)

Raise(exc) ==
    /\ pc' = "raised"
    /\ error' = exc

\* lines 59-74: aggregation and future dates
Aggregate ==
    /\ pc = "start"
    /\ df # <<>>
    /\ daily' = AggregateDaily(df)
    /\ future_dates' = FutureDates(daily'[Len(daily')].date, full_horizon_days)
    /\ pc' = "model"
    /\ UNCHANGED <<callers, inputs, forecast_values, lib_called, model, recent_avg, bias_percentage,
                   biased_forecast, adjusted_forecast, floor, hist_std, noise_scale, noise,
                   final_values, final_df, error>>

\* line 65 on an empty frame: min() and max() are NaT and pd.date_range raises
AggregateEmpty ==
    /\ pc = "start"
    /\ df = <<>>
    /\ Raise("ValueError")
    /\ UNCHANGED <<callers, inputs, daily, future_dates, forecast_values, lib_called, model, recent_avg,
                   bias_percentage, biased_forecast, adjusted_forecast, floor, hist_std,
                   noise_scale, noise, final_values, final_df>>

\* seasonal = None and no seasonal_periods argument
NoSeasonal == "None"
NoPeriods == 0

\* the arguments ExponentialSmoothing is constructed with (lines 108-110)
ExponentialSmoothing(trend, seasonal, seasonal_periods) ==
    [trend |-> trend, seasonal |-> seasonal, seasonal_periods |-> seasonal_periods]

\* the assignments common to the three model branches; model is theirs
Predicted(values, lib) ==
    /\ forecast_values' = values
    /\ lib_called' = lib
    /\ pc' = "bias"
    /\ UNCHANGED <<callers, inputs, daily, future_dates, recent_avg, bias_percentage,
                   biased_forecast, adjusted_forecast, floor, hist_std, noise_scale, noise,
                   final_values, final_df, error>>

ModelRaises(exc) ==
    /\ Raise(exc)
    /\ UNCHANGED <<callers, inputs, daily, future_dates, forecast_values, lib_called, model, recent_avg,
                   bias_percentage, biased_forecast, adjusted_forecast, floor, hist_std,
                   noise_scale, noise, final_values, final_df>>

\* a missing library answered by the fallback values instead of the error
ProphetUnavailable_substituted ==
    /\ pc = "model"
    /\ algorithm = ALGORITHM_PROPHET
    /\ ~PROPHET_AVAILABLE
    /\ Predicted(Repeat(Mean(Values(daily)), full_horizon_days), lib_called)
    /\ UNCHANGED model

\* lines 82-84
ProphetUnavailable ==
    /\ pc = "model"
    /\ algorithm = ALGORITHM_PROPHET
    /\ ~PROPHET_AVAILABLE
    /\ ModelRaises(ERR_MSG_PROPHET_NOT_INSTALLED)

\* lines 86-96: forecast.tail(horizon)["yhat"].values, whatever Prophet predicts
PredictProphet ==
    /\ pc = "model"
    /\ algorithm = ALGORITHM_PROPHET
    /\ PROPHET_AVAILABLE
    /\ \E yhat \in [1..full_horizon_days -> RawVals] : Predicted(yhat, "prophet")
    /\ UNCHANGED model

\* lines 98-100
StatsmodelsUnavailable ==
    /\ pc = "model"
    /\ algorithm # ALGORITHM_PROPHET
    /\ algorithm = ALGORITHM_HOLT_WINTERS
    /\ ~STATSMODELS_AVAILABLE
    /\ ModelRaises(ERR_MSG_STATSMODELS_NOT_INSTALLED)

\* lines 102-112: fit.forecast(horizon).values, whatever the fit predicts
PredictHoltWinters ==
    /\ pc = "model"
    /\ algorithm # ALGORITHM_PROPHET
    /\ algorithm = ALGORITHM_HOLT_WINTERS
    /\ STATSMODELS_AVAILABLE
    /\ model' = <<ExponentialSmoothing("add", NoSeasonal, NoPeriods)>>
    /\ \E fc \in [1..full_horizon_days -> RawVals] : Predicted(fc, "statsmodels")

\* a fallback that fills with zeros instead of the historical mean
FallbackValues_zero(series, horizon) == Repeat(Q(0), horizon)

\* a fallback that fills with the mean of the last 30 days
FallbackValues_recent(series, horizon) ==
    Repeat(Mean(Values(TailN(series, RecentWindow))), horizon)

FallbackValues(series, horizon) == Repeat(Mean(Values(series)), horizon)

\* lines 114-117
PredictFallback ==
    /\ pc = "model"
    /\ algorithm # ALGORITHM_PROPHET
    /\ algorithm # ALGORITHM_HOLT_WINTERS
    /\ Predicted(FallbackValues(daily, full_horizon_days), lib_called)
    /\ UNCHANGED model

\* lines 126-140
OptimisticBias ==
    /\ pc = "bias"
    /\ recent_avg' = RecentAvg(daily)
    /\ bias_percentage' = BiasPercentage(forecast_values, recent_avg')
    /\ biased_forecast' = ApplyBias(forecast_values, bias_percentage')
    /\ pc' = "floor"
    /\ UNCHANGED <<callers, inputs, daily, future_dates, forecast_values, lib_called, model,
                   adjusted_forecast, floor, hist_std, noise_scale, noise, final_values, final_df,
                   error>>

\* lines 144-145
SustainabilityFloor ==
    /\ pc = "floor"
    /\ floor' = Floor(recent_avg)
    /\ adjusted_forecast' = ApplyFloor(biased_forecast, floor')
    /\ pc' = "noise"
    /\ UNCHANGED <<callers, inputs, daily, future_dates, forecast_values, lib_called, model, recent_avg,
                   bias_percentage, biased_forecast, hist_std, noise_scale, noise, final_values,
                   final_df, error>>

\* np.random.normal(0, scale, size): zeros for scale 0, any reals for scale > 0
NoiseDraws(scale, size) ==
    IF scale.sgn = 0 THEN {Repeat(Q(0), size)} ELSE [1..size -> NoiseVals]

\* lines 149-155
OrganicNoise ==
    /\ pc = "noise"
    /\ hist_std' = HistStd(daily, recent_avg)
    /\ noise_scale' = NoiseScale(hist_std')
    /\ noise_scale'.sgn >= 0
    /\ noise' \in NoiseDraws(noise_scale', Len(adjusted_forecast))
    /\ pc' = "clamp"
    /\ UNCHANGED <<callers, inputs, daily, future_dates, forecast_values, lib_called, model, recent_avg,
                   bias_percentage, biased_forecast, adjusted_forecast, floor,
                   final_values, final_df, error>>

\* line 155 with a negative scale: np.random.normal raises ValueError("scale < 0")
NoiseScaleNegative ==
    /\ pc = "noise"
    /\ hist_std' = HistStd(daily, recent_avg)
    /\ noise_scale' = NoiseScale(hist_std')
    /\ noise_scale'.sgn < 0
    /\ Raise("ValueError")
    /\ UNCHANGED <<callers, inputs, daily, future_dates, forecast_values, lib_called, model, recent_avg,
                   bias_percentage, biased_forecast, adjusted_forecast, floor, noise,
                   final_values, final_df>>

\* lines 157-175
ClampAndCombine ==
    /\ pc = "clamp"
    /\ final_values' = AddNoiseAndClamp(adjusted_forecast, noise)
    /\ final_df' = ConcatFrames(HistoryFrame(daily), ForecastFrame(future_dates, final_values'))
    /\ pc' = "done"
    /\ UNCHANGED <<callers, inputs, daily, future_dates, forecast_values, lib_called, model, recent_avg,
                   bias_percentage, biased_forecast, adjusted_forecast, floor, hist_std,
                   noise_scale, noise, error>>

Next ==
    \/ Aggregate
    \/ AggregateEmpty
    \/ ProphetUnavailable
    \/ PredictProphet
    \/ StatsmodelsUnavailable
    \/ PredictHoltWinters
    \/ PredictFallback
    \/ OptimisticBias
    \/ SustainabilityFloor
    \/ OrganicNoise
    \/ NoiseScaleNegative
    \/ ClampAndCombine

Spec == Init /\ [][Next]_vars

\* the aggregation step alone, over every small frame
NextAggregation ==
    \/ Aggregate
    \/ AggregateEmpty

SpecAggregation == InitAggregation /\ [][NextAggregation]_vars

----------------------------------------------------------------------------
(* Vocabulary of the properties, stated on the input frame itself.         *)

\* the earliest and the latest day among rows 1..n (n >= 1)
RECURSIVE EarliestDay(_)
EarliestDay(n) ==
    IF n = 1 THEN df[1].date.day
    ELSE LET d == EarliestDay(n - 1) IN IF df[n].date.day < d THEN df[n].date.day ELSE d

RECURSIVE LatestDay(_)
LatestDay(n) ==
    IF n = 1 THEN df[1].date.day
    ELSE LET d == LatestDay(n - 1) IN IF df[n].date.day > d THEN df[n].date.day ELSE d

FirstObservedDay == EarliestDay(Len(df))
LastObservedDay == LatestDay(Len(df))

\* the sum of the observations among rows 1..n that were made on day d
RECURSIVE SumOfRows(_, _)
SumOfRows(n, d) ==
    IF n = 0 THEN 0
    ELSE (IF df[n].date.day = d THEN df[n].value ELSE 0) + SumOfRows(n - 1, d)

\* the sum of the observations made on day d
ObservedOn(d) == SumOfRows(Len(df), d)

IsForecastRow(r) == r.Type = UI_LABEL_FORECAST
IsHistoryRow(r) == r.Type = UI_LABEL_HISTORY
ForecastRows == SelectSeq(final_df, IsForecastRow)
HistoryRows == SelectSeq(final_df, IsHistoryRow)

Returned == pc = "done"

----------------------------------------------------------------------------
(* C1: whenever generate_forecast returns for a horizon > 0, the result    *)
(* holds exactly `horizon` Forecast rows, dated last historical day + 1 up *)
(* to last historical day + horizon, contiguous and ascending, whatever    *)
(* the algorithm.                                                          *)
C1_ForecastDates ==
    (Returned /\ full_horizon_days > 0) =>
        LET rows == ForecastRows
            last == LastObservedDay
        IN /\ Len(rows) = full_horizon_days
           /\ \A i \in 1..Len(rows) : rows[i].date = last + i

C1_Witness ==
    /\ Returned
    /\ algorithm = ALGORITHM_HOLT_WINTERS
    /\ full_horizon_days = 2
    /\ Len(df) = 2 /\ df[1].date.day > df[2].date.day
    /\ Len(ForecastRows) = 2
    /\ ForecastRows[2].date = df[1].date.day + 2

(* C2: every Forecast value of a returned result is >= 0, for any input,   *)
(* algorithm, horizon and noise draws.                                     *)
C2_NonNegative ==
    Returned =>
        LET rows == ForecastRows
        IN \A i \in 1..Len(rows) : QLe(Q(0), rows[i].value)

\* a draw pushed a value below zero and the clamp returned 0
C2_Witness ==
    /\ Returned
    /\ \E i \in 1..Len(ForecastRows) :
          /\ i \in DOMAIN noise /\ i \in DOMAIN adjusted_forecast
          /\ QLt(QAdd(adjusted_forecast[i], noise[i]), Q(0))
          /\ ForecastRows[i].value = Q(0)

(* C3: the result is the aggregated Historical daily series, untouched by  *)
(* the post-processing, followed by the Forecast rows: every Historical    *)
(* row precedes every Forecast row, dates strictly ascend, no date occurs  *)
(* twice.                                                                  *)
C3_HistoryThenForecast ==
    Returned =>
        LET history == HistoryRows
            first == FirstObservedDay
            last == LastObservedDay
        IN /\ final_df = history \o ForecastRows
           /\ \A i \in 1..Len(final_df) :
                 IsHistoryRow(final_df[i]) \/ IsForecastRow(final_df[i])
           /\ Len(history) = last - first + 1
           /\ \A i \in 1..Len(history) :
                 /\ history[i].date = first + i - 1
                 /\ history[i].value = Q(daily[i].value)
                 /\ daily[i].value = ObservedOn(first + i - 1)
           /\ \A i, j \in 1..Len(final_df) :
                 i < j => final_df[i].date < final_df[j].date

\* a result whose forecast was lifted by the bias rule and raised by the floor
C3_Witness ==
    /\ Returned
    /\ full_horizon_days = 2
    /\ Len(HistoryRows) >= 3
    /\ \E i \in 1..Len(HistoryRows) : HistoryRows[i].value = Q(0)
    /\ QLt(Q(0), bias_percentage)
    /\ biased_forecast # adjusted_forecast
    /\ Len(final_df) = Len(HistoryRows) + 2

(* C4: for a non-empty set of observations (dates repeated, unsorted,      *)
(* with gaps) the aggregated daily series has one entry per calendar day   *)
(* from the first to the last observed day, so its length is               *)
(* (max - min) + 1; each value is the sum of that day's observations, 0    *)
(* for a day without any.                                                  *)
C4_DailySeries ==
    (pc = "model") =>
        LET first == FirstObservedDay
            last == LastObservedDay
        IN /\ Len(daily) = last - first + 1
           /\ \A i \in 1..Len(daily) :
                 /\ daily[i].date = first + i - 1
                 /\ daily[i].value = ObservedOn(first + i - 1)

\* unsorted rows two days apart: the day between them is filled with 0
C4_Witness ==
    /\ pc = "model"
    /\ Len(df) = 2
    /\ df[1].date.day = 2 /\ df[2].date.day = 0
    /\ df[1].value = 2 /\ df[2].value = -1
    /\ daily = <<[date |-> 0, value |-> -1], [date |-> 1, value |-> 0],
                 [date |-> 2, value |-> 2]>>

\* repeated dates at different times of day are summed into one entry
C4_WitnessRepeated ==
    /\ pc = "model"
    /\ Len(df) = 2
    /\ df[1].date.day = df[2].date.day /\ df[1].date.tod # df[2].date.tod
    /\ df[1].value = 2 /\ df[2].value = 2
    /\ Len(daily) = 1 /\ daily[1].value = 4

----------------------------------------------------------------------------
(* Statistics of the daily history (C4 ties it to the observations).       *)

\* positions lo..hi of the daily series
RECURSIVE SumFromTo(_, _)
SumFromTo(lo, hi) ==
    IF lo > hi THEN 0 ELSE daily[hi].value + SumFromTo(lo, hi - 1)

RECURSIVE SumSqFromTo(_, _)
SumSqFromTo(lo, hi) ==
    IF lo > hi THEN 0 ELSE daily[hi].value * daily[hi].value + SumSqFromTo(lo, hi - 1)

MeanFromTo(lo, hi) == Norm(SumFromTo(lo, hi), hi - lo + 1)

\* sample variance, NaN below two days
VarianceFromTo(lo, hi) ==
    LET n == hi - lo + 1
        sum == SumFromTo(lo, hi)
    IN IF n < 2 THEN NaN
       ELSE Norm(n * SumSqFromTo(lo, hi) - sum * sum, n * (n - 1))

HistoryLen == Len(daily)

\* first position of the last min(30, length) days
RecentFrom == IF HistoryLen > RecentWindow THEN HistoryLen - RecentWindow + 1 ELSE 1

HistoryMean == MeanFromTo(1, HistoryLen)
HistoryVariance == VarianceFromTo(1, HistoryLen)
TrailingVariance == VarianceFromTo(RecentFrom, HistoryLen)
TrailingMean == IF HistoryLen = 0 THEN Q(0) ELSE MeanFromTo(RecentFrom, HistoryLen)

RECURSIVE QSum(_)
QSum(s) == IF s = <<>> THEN Q(0) ELSE QAdd(Head(s), QSum(Tail(s)))

\* mean of the first min(horizon, 30) raw predicted values
StartAvg ==
    LET k == IF Len(forecast_values) <= RecentWindow THEN Len(forecast_values)
             ELSE RecentWindow
    IN QDiv(QSum(SubSeq(forecast_values, 1, k)), Q(k))

AfterBias == pc \in {"floor", "noise", "clamp", "done"}
AfterFloor == pc \in {"noise", "clamp", "done"}
AfterNoise == pc \in {"clamp", "done"}

----------------------------------------------------------------------------
C5_WitnessUncapped ==
    /\ pc = "floor"
    /\ recent_avg = Q(2)
    /\ forecast_values = <<<<9, 5>>, Q(1)>>
    /\ biased_forecast = <<Q(2), <<10, 9>>>>

----------------------------------------------------------------------------
\* the history is the constant v over at least 30 days
ConstantHistory(v) ==
    /\ df # <<>>
    /\ HistoryLen >= RecentWindow
    /\ \A i \in 1..HistoryLen : daily[i].value = v

Unrecognized == algorithm # ALGORITHM_PROPHET /\ algorithm # ALGORITHM_HOLT_WINTERS

ZeroNoise == \A i \in DOMAIN noise : noise[i] = Q(0)

----------------------------------------------------------------------------
(* C7: the sequence that leaves the floor rule (before noise) has every    *)
(* value >= floor, where floor = 0.4 * recent_avg and recent_avg is the    *)
(* mean of the last min(30, length) daily values, 0 when that mean is      *)
(* undefined.                                                              *)
C7_SustainabilityFloor ==
    AfterFloor =>
        /\ floor = QMul(<<2, 5>>, TrailingMean)
        /\ Len(adjusted_forecast) = Len(forecast_values)
        /\ \A i \in 1..Len(adjusted_forecast) : QLe(floor, adjusted_forecast[i])

\* a 31-day history whose first day lies outside the window; a raw value is
\* raised to the floor
C7_Witness ==
    /\ pc = "noise"
    /\ HistoryLen > RecentWindow
    /\ daily[1].value # daily[HistoryLen].value
    /\ HistoryMean # TrailingMean
    /\ QLt(Q(0), floor)
    /\ \E i \in 1..Len(adjusted_forecast) :
          QLt(biased_forecast[i], floor) /\ adjusted_forecast[i] = floor

----------------------------------------------------------------------------
(* C8: for every algorithm (the fallback included) the post-processing     *)
(* stages run in the fixed order bias, floor, noise, non-negativity clamp, *)
(* each on the output of the stage before it, none skipped: no stage has   *)
(* produced output before the stage before it ran, and the returned value  *)
(* is clamp(noise(floor(bias(raw)))) element by element.                   *)
C8_StageOrder ==
    /\ pc \in {"start", "model", "bias"} => biased_forecast = <<>>
    /\ pc \in {"start", "model", "bias", "floor"} => adjusted_forecast = <<>>
    /\ pc \in {"start", "model", "bias", "floor", "noise", "raised"} => noise = <<>>
    /\ ~Returned => final_values = <<>> /\ final_df = <<>>
    /\ AfterBias => Len(biased_forecast) = full_horizon_days
    /\ AfterFloor => Len(adjusted_forecast) = full_horizon_days
    /\ AfterNoise => Len(noise) = full_horizon_days
    /\ Returned =>
          /\ Len(final_values) = full_horizon_days
          /\ Len(ForecastRows) = full_horizon_days
          /\ \A i \in 1..full_horizon_days :
                LET rows == ForecastRows
                    lifted == QMul(forecast_values[i], QAdd(Q(1), bias_percentage))
                    floored == IF QLt(lifted, floor) THEN floor ELSE lifted
                    noised == QAdd(floored, noise[i])
                    clamped == IF QLt(noised, Q(0)) THEN Q(0) ELSE noised
                IN /\ biased_forecast[i] = lifted
                   /\ adjusted_forecast[i] = floored
                   /\ final_values[i] = clamped
                   /\ rows[i].value = clamped

\* one run in which all four stages change a value
C8_Witness ==
    /\ Returned
    /\ full_horizon_days = 2
    /\ biased_forecast[1] # forecast_values[1]
    /\ adjusted_forecast[1] # biased_forecast[1]
    /\ noise[1] # Q(0) /\ noise[2] # Q(0)
    /\ final_values[1] = Q(0)
    /\ QLt(QAdd(adjusted_forecast[1], noise[1]), Q(0))
    /\ final_values[2] = QAdd(adjusted_forecast[2], noise[2])

----------------------------------------------------------------------------
\* hist_std after the zero / undefined substitution, from a variance
SubstitutedStd(variance) ==
    IF IsNaN(variance) \/ variance = Q(0)
    THEN LET default == QMul(TrailingMean, <<1, 10>>)
         IN [sgn |-> Sign(default[1]), sq |-> QMul(default, default)]
    ELSE [sgn |-> 1, sq |-> variance]

\* exactly one draw per forecast value, added once, of scale hist_std * 0.3
OneDrawPerValue ==
    /\ noise_scale = [sgn |-> hist_std.sgn, sq |-> QMul(hist_std.sq, <<9, 100>>)]
    /\ Len(noise) = Len(adjusted_forecast)
    /\ noise_scale.sgn = 0 => ZeroNoise
    /\ Returned =>
          \A i \in 1..Len(final_values) :
              final_values[i] = PyMax(Q(0), QAdd(adjusted_forecast[i], noise[i]))

(* C9 as stated: hist_std is the standard deviation of the trailing window *)
(* (last min(30, length) daily values) used for recent_avg, replaced by    *)
(* recent_avg * 0.1 when zero or undefined; one draw of scale              *)
(* hist_std * 0.3 is added to each forecast value.                         *)
C9_WindowStd ==
    AfterNoise =>
        /\ hist_std = SubstitutedStd(TrailingVariance)
        /\ OneDrawPerValue

(* C9 amended: hist_std is the sample standard deviation of the whole      *)
(* gap-filled daily history (not only of the trailing 30 days), replaced   *)
(* by recent_avg * 0.1 when zero or undefined; exactly one zero-mean draw  *)
(* of scale hist_std * 0.3 is added to each forecast value.                *)
C9_WholeHistoryStd ==
    AfterNoise =>
        /\ hist_std = SubstitutedStd(HistoryVariance)
        /\ OneDrawPerValue

\* 31 days, the first one differs: the window is constant, the history is not
C9_Witness ==
    /\ Returned
    /\ full_horizon_days = 2
    /\ HistoryLen > RecentWindow
    /\ TrailingVariance = Q(0)
    /\ HistoryVariance # Q(0)
    /\ hist_std = [sgn |-> 1, sq |-> HistoryVariance]
    /\ noise[1] # Q(0) /\ noise[2] # noise[1]

\* a single observation: the deviation is undefined, recent_avg * 0.1 is used
C9_WitnessUndefined ==
    /\ Returned
    /\ HistoryLen = 1
    /\ hist_std = [sgn |-> 1, sq |-> <<1, 25>>]
    /\ noise_scale = [sgn |-> 1, sq |-> <<9, 2500>>]

----------------------------------------------------------------------------
----------------------------------------------------------------------------
(* run_backtest (forecasting.py, lines 177-257).                           *)

MaxTestDays == 2     \* test_days 0..MaxTestDays
MaxCompared == 2     \* rows of an arbitrary comparison table
MaxUniform == 5      \* rows of a comparison table that repeats one row

\* an aggregated frame as the rows handed to generate_forecast: one row per
\* day, at midnight
AsRows(series) == [i \in DOMAIN series |-> Row(series[i].date, "00:00", series[i].value)]

\* a split that keeps the whole series as the training part
TrainSplit_all(series, n) == series

\* daily.iloc[:-n] for n >= 0 (for n = 0 this is daily.iloc[:0], nothing)
TrainSplit(series, n) ==
    IF n = 0 \/ n >= Len(series) THEN <<>> ELSE SubSeq(series, 1, Len(series) - n)

\* daily.iloc[-n:] for n >= 0 (for n = 0 this is daily.iloc[0:], everything)
TestSplit(series, n) ==
    IF n = 0 \/ n >= Len(series) THEN series
    ELSE SubSeq(series, Len(series) - n + 1, Len(series))

\* forecast_result[forecast_result["Type"] == UI_LABEL_FORECAST]
ForecastOnly(frame) == SelectSeq(frame, LAMBDA r : r.Type = UI_LABEL_FORECAST)

\* the rows of right that carry the date of the left row l
MatchRows(l, right) ==
    LET m == SelectSeq(right, LAMBDA r : r.date = l.date)
    IN [i \in DOMAIN m |->
          [date |-> l.date, actual |-> l.value, predicted |-> m[i].value]]

\* pd.merge(left, right, on = date, how = "inner"): the order of the left keys
RECURSIVE Merge(_, _)
Merge(left, right) ==
    IF left = <<>> THEN <<>>
    ELSE MatchRows(Head(left), right) \o Merge(Tail(left), right)

QAbs(a) == IF IsNaN(a) THEN NaN ELSE <<Abs(a[1]), a[2]>>

RECURSIVE SumQ(_)
SumQ(s) == IF s = <<>> THEN Q(0) ELSE QAdd(Head(s), SumQ(Tail(s)))

\* np.mean: NaN for no values
MeanQ(s) == IF s = <<>> THEN NaN ELSE QDiv(SumQ(s), Q(Len(s)))

\* y_true - y_pred
Residuals(cmp) == [i \in DOMAIN cmp |-> QSub(Q(cmp[i].actual), cmp[i].predicted)]

\* an absolute error averaged over the rows with a non-zero actual only
MeanAbsoluteError_non_zero(cmp) ==
    LET non_zero == SelectSeq(cmp, LAMBDA r : r.actual # 0)
        e == Residuals(non_zero)
    IN MeanQ([i \in DOMAIN e |-> QAbs(e[i])])

\* np.mean(np.abs(y_true - y_pred))
MeanAbsoluteError(cmp) ==
    LET e == Residuals(cmp) IN MeanQ([i \in DOMAIN e |-> QAbs(e[i])])

\* np.sqrt(np.mean((y_true - y_pred) ** 2))
RootMeanSquaredError(cmp) ==
    LET e == Residuals(cmp) IN RootOfSquare(MeanQ([i \in DOMAIN e |-> QMul(e[i], e[i])]))

\* a percentage error averaged over every row, a zero actual counting as 0
MeanAbsolutePercentageError_all_rows(cmp) ==
    IF \E i \in DOMAIN cmp : cmp[i].actual # 0
    THEN QMul(MeanQ([i \in DOMAIN cmp |->
                       IF cmp[i].actual = 0 THEN Q(0)
                       ELSE QAbs(QDiv(Residuals(cmp)[i], Q(cmp[i].actual)))]),
              Q(100))
    ELSE Q(0)

\* lines 245-249: the rows with y_true != 0 only, 0.0 when there is none
MeanAbsolutePercentageError(cmp) ==
    LET non_zero == SelectSeq(cmp, LAMBDA r : r.actual # 0)
        e == Residuals(non_zero)
    IN IF non_zero # <<>>
       THEN QMul(MeanQ([i \in DOMAIN e |-> QAbs(QDiv(e[i], Q(non_zero[i].actual)))]),
                 Q(100))
       ELSE Q(0)

forecast_locals == <<daily, future_dates, forecast_values, lib_called, model, recent_avg,
                     bias_percentage, biased_forecast, adjusted_forecast, floor, hist_std,
                     noise_scale, noise, final_values, final_df, error>>

flags == <<PROPHET_AVAILABLE, STATSMODELS_AVAILABLE>>

\* line 194 on an empty frame: min() and max() are NaT and pd.date_range raises
BacktestAggregateEmpty ==
    /\ backtest_pc = "start"
    /\ backtest_df = <<>>
    /\ backtest_pc' = "raised"
    /\ backtest_error' = "ValueError"
    /\ UNCHANGED <<inputs, pc, forecast_locals, insights_vars, geocoding_vars,
                   backtest_df, test_days,
                   backtest_daily, train_df, test_df, comparison, mae, rmse, mape,
                   train_last_date>>

\* lines 189-199: the aggregated series is no longer than test_days
BacktestInsufficient ==
    /\ backtest_pc = "start"
    /\ backtest_df # <<>>
    /\ backtest_daily' = AggregateDaily(backtest_df)
    /\ Len(backtest_daily') <= test_days
    /\ backtest_pc' = "insufficient"
    /\ UNCHANGED <<inputs, pc, forecast_locals, insights_vars, geocoding_vars,
                   backtest_df, test_days,
                   train_df, test_df, comparison, mae, rmse, mape, train_last_date,
                   backtest_error>>

\* lines 189-218: aggregation, split, and the call of generate_forecast on train
BacktestSplit ==
    /\ backtest_pc = "start"
    /\ backtest_df # <<>>
    /\ backtest_daily' = AggregateDaily(backtest_df)
    /\ Len(backtest_daily') > test_days
    /\ train_df' = TrainSplit(backtest_daily', test_days)
    /\ test_df' = TestSplit(backtest_daily', test_days)
    /\ df' = AsRows(train_df')
    /\ full_horizon_days' = test_days
    /\ pc' = "start"
    /\ backtest_pc' = "forecast"
    /\ UNCHANGED <<algorithm, flags, forecast_locals, insights_vars, geocoding_vars,
                   backtest_df,
                   test_days, comparison, mae, rmse, mape, train_last_date,
                   backtest_error>>

\* line 216: an exception of generate_forecast is not caught
BacktestPropagate ==
    /\ backtest_pc = "forecast"
    /\ pc = "raised"
    /\ backtest_pc' = "raised"
    /\ backtest_error' = error
    /\ UNCHANGED <<inputs, pc, forecast_locals, insights_vars, geocoding_vars,
                   backtest_df, test_days,
                   backtest_daily, train_df, test_df, comparison, mae, rmse, mape,
                   train_last_date>>

\* a merge that scores the raw model output instead of the returned frame
BacktestMerge_raw ==
    /\ backtest_pc = "forecast"
    /\ pc = "done"
    /\ comparison' = Merge(test_df, ForecastFrame(future_dates, forecast_values))
    /\ backtest_pc' = "metrics"
    /\ UNCHANGED <<inputs, pc, forecast_locals, insights_vars, geocoding_vars,
                   backtest_df, test_days,
                   backtest_daily, train_df, test_df, mae, rmse, mape, train_last_date,
                   backtest_error>>

\* lines 221-234
BacktestMerge ==
    /\ backtest_pc = "forecast"
    /\ pc = "done"
    /\ comparison' = Merge(test_df, ForecastOnly(final_df))
    /\ backtest_pc' = "metrics"
    /\ UNCHANGED <<inputs, pc, forecast_locals, insights_vars, geocoding_vars,
                   backtest_df, test_days,
                   backtest_daily, train_df, test_df, mae, rmse, mape, train_last_date,
                   backtest_error>>

\* lines 237-257
BacktestMetrics ==
    /\ backtest_pc = "metrics"
    /\ mae' = MeanAbsoluteError(comparison)
    /\ rmse' = RootMeanSquaredError(comparison)
    /\ mape' = MeanAbsolutePercentageError(comparison)
    /\ train_last_date' = train_df[Len(train_df)].date
    /\ backtest_pc' = "returned"
    /\ UNCHANGED <<inputs, pc, forecast_locals, insights_vars, geocoding_vars,
                   backtest_df, test_days,
                   backtest_daily, train_df, test_df, comparison, backtest_error>>

\* a caller either calls generate_forecast itself or calls run_backtest
InitBacktest ==
    \/ InitOver(SparseInputs)
    \/ /\ backtest_df \in SparseInputs
       /\ test_days \in 0..MaxTestDays
       /\ backtest_pc = "start"
       /\ BacktestLocals
       /\ df = <<>>
       /\ algorithm \in Algorithms
       /\ full_horizon_days = 0
       /\ PROPHET_AVAILABLE \in BOOLEAN
       /\ STATSMODELS_AVAILABLE \in BOOLEAN
       /\ pc = "idle"
       /\ ForecastLocals
       /\ InsightsIdle
       /\ GeocodingIdle

NextBacktest ==
    \/ Next
    \/ BacktestAggregateEmpty
    \/ BacktestInsufficient
    \/ BacktestSplit
    \/ BacktestPropagate
    \/ BacktestMerge
    \/ BacktestMetrics

SpecBacktest == InitBacktest /\ [][NextBacktest]_vars

\* the metric step alone (lines 237-257) on a comparison table whose predicted
\* column is arbitrary, as when the tests replace generate_forecast by a stub
\* (generate_forecast itself does not run then)
MetricActuals == {-20, 0, 20, 100}
MetricPredictions == {Q(0), Q(10), Q(15)}

ComparisonOf(actuals, predictions) ==
    [i \in DOMAIN actuals |->
        [date |-> i, actual |-> actuals[i], predicted |-> predictions[i]]]

ComparisonInputs ==
    UNION {{ComparisonOf(a, p) :
               a \in [1..n -> MetricActuals], p \in [1..n -> MetricPredictions]} :
           n \in 1..MaxCompared}
    \cup {ComparisonOf(Repeat(a, n), Repeat(p, n)) :
            a \in MetricActuals, p \in MetricPredictions, n \in 1..MaxUniform}

InitMetrics ==
    /\ comparison \in ComparisonInputs
    /\ train_df = <<[date |-> 0, value |-> 0]>>
    /\ test_df = [i \in DOMAIN comparison |-> [date |-> i, value |-> comparison[i].actual]]
    /\ backtest_daily = train_df \o test_df
    /\ backtest_df = AsRows(backtest_daily)
    /\ test_days = Len(comparison)
    /\ backtest_pc = "metrics"
    /\ mae = NaN
    /\ rmse = RootNaN
    /\ mape = NaN
    /\ train_last_date = -1
    /\ backtest_error = "none"
    /\ df = <<>>
    /\ algorithm = UNKNOWN_ALGO
    /\ full_horizon_days = 0
    /\ PROPHET_AVAILABLE \in BOOLEAN
    /\ STATSMODELS_AVAILABLE \in BOOLEAN
    /\ pc = "idle"
    /\ ForecastLocals
    /\ InsightsIdle
    /\ GeocodingIdle

NextMetrics == BacktestMetrics

SpecMetrics == InitMetrics /\ [][NextMetrics]_vars

----------------------------------------------------------------------------
(* Vocabulary of the properties of run_backtest, stated on its input.      *)

UnavailableSelected ==
    \/ algorithm = ALGORITHM_PROPHET /\ ~PROPHET_AVAILABLE
    \/ algorithm = ALGORITHM_HOLT_WINTERS /\ ~STATSMODELS_AVAILABLE

UnavailableError ==
    IF algorithm = ALGORITHM_PROPHET THEN ERR_MSG_PROPHET_NOT_INSTALLED
    ELSE ERR_MSG_STATSMODELS_NOT_INSTALLED

BacktestDays == {backtest_df[i].date.day : i \in DOMAIN backtest_df}
BacktestFirstDay == CHOOSE d \in BacktestDays : \A e \in BacktestDays : d <= e
BacktestLastDay == CHOOSE d \in BacktestDays : \A e \in BacktestDays : d >= e

\* calendar days from the first to the last observation, 0 without observations
SeriesLength == IF backtest_df = <<>> THEN 0 ELSE BacktestLastDay - BacktestFirstDay + 1

\* the sum of the observations of rows 1..n of the backtest input made on day d
RECURSIVE SumOfBacktestRows(_, _)
SumOfBacktestRows(n, d) ==
    IF n = 0 THEN 0
    ELSE (IF backtest_df[n].date.day = d THEN backtest_df[n].value ELSE 0)
         + SumOfBacktestRows(n - 1, d)

ActualOn(d) == SumOfBacktestRows(Len(backtest_df), d)

BacktestCalled == backtest_pc # "idle"
ForecasterCalled == pc # "idle"

----------------------------------------------------------------------------
(* C11: when Prophet or Holt-Winters is selected and its library is        *)
(* missing, a call of generate_forecast that reaches the model selection   *)
(* (its input has rows; the aggregation of an empty frame is the matter of *)
(* C13) raises the unavailable-model error of that library: no prediction  *)
(* and no post-processing stage ever runs, no library is called, the       *)
(* fallback values are never substituted, nothing is returned, and         *)
(* run_backtest raises the very error generate_forecast raised.            *)
C11_FailFast ==
    UnavailableSelected =>
        /\ pc \notin {"bias", "floor", "noise", "clamp", "done"}
        /\ lib_called = "none"
        /\ forecast_values = <<>> /\ biased_forecast = <<>> /\ adjusted_forecast = <<>>
        /\ noise = <<>> /\ final_values = <<>> /\ final_df = <<>>
        /\ (pc = "raised" /\ df # <<>>) => error = UnavailableError
        /\ backtest_pc \notin {"metrics", "returned"}
        /\ backtest_pc = "forecast" => backtest_error = "none"
        /\ (backtest_pc = "raised" /\ ForecasterCalled) =>
              /\ pc = "raised"
              /\ backtest_error = error
              /\ comparison = <<>> /\ IsNaN(mae) /\ IsNaN(mape)

\* run_backtest re-raises the Prophet error although statsmodels is installed
C11_Witness ==
    /\ algorithm = ALGORITHM_PROPHET
    /\ ~PROPHET_AVAILABLE /\ STATSMODELS_AVAILABLE
    /\ backtest_pc = "raised"
    /\ test_days = 2
    /\ Len(daily) = 1
    /\ error = ERR_MSG_PROPHET_NOT_INSTALLED
    /\ backtest_error = ERR_MSG_PROPHET_NOT_INSTALLED

\* a direct call with Holt-Winters selected and statsmodels missing
C11_WitnessDirect ==
    /\ algorithm = ALGORITHM_HOLT_WINTERS
    /\ PROPHET_AVAILABLE /\ ~STATSMODELS_AVAILABLE
    /\ backtest_pc = "idle"
    /\ pc = "raised"
    /\ Len(daily) = 3
    /\ error = ERR_MSG_STATSMODELS_NOT_INSTALLED

(* C12 as stated: generate_forecast rejects a horizon <= 0 with an error,  *)
(* it never returns a result for it.                                       *)
C12_RejectsNonPositiveHorizon ==
    (ForecasterCalled /\ full_horizon_days <= 0) => ~Returned

\* horizon 0 is accepted: the history comes back without any Forecast row
C12_Witness ==
    /\ Returned
    /\ full_horizon_days = 0
    /\ error = "none"
    /\ Len(final_df) = 3
    /\ final_df = HistoryRows
    /\ ForecastRows = <<>>

(* C13 as stated: on an input without rows the aggregation step yields an  *)
(* empty daily series and raises nothing, in generate_forecast and in      *)
(* run_backtest.                                                           *)
C13_EmptyDailySeries ==
    /\ (ForecasterCalled /\ df = <<>>) => (error = "none" /\ pc # "raised")
    /\ (BacktestCalled /\ backtest_df = <<>>) =>
          (backtest_error = "none" /\ backtest_pc # "raised")

\* run_backtest on a frame without rows: the aggregation raises
C13_Witness ==
    /\ backtest_df = <<>>
    /\ backtest_pc = "raised"
    /\ backtest_error = "ValueError"
    /\ backtest_daily = <<>>
    /\ ~ForecasterCalled

\* generate_forecast on a frame without rows: the aggregation raises
C13_WitnessForecast ==
    /\ backtest_pc = "idle"
    /\ df = <<>>
    /\ pc = "raised"
    /\ error = "ValueError"
    /\ daily = <<>> /\ lib_called = "none"

(* C14 as stated: run_backtest with test_days >= the length in calendar    *)
(* days of the gap-filled daily series (0 for an input without rows)       *)
(* returns the insufficient-data outcome, raises nothing and never calls   *)
(* generate_forecast.                                                      *)
C14_InsufficientData ==
    (backtest_pc \notin {"idle", "start"} /\ test_days >= SeriesLength) =>
        /\ backtest_pc = "insufficient"
        /\ backtest_error = "none"
        /\ ~ForecasterCalled

\* the part of C14 the code keeps: the same, for an input that has rows
C14_InsufficientDataNonEmpty ==
    (backtest_pc \notin {"idle", "start"} /\ test_days >= SeriesLength
        /\ backtest_df # <<>>) =>
        /\ backtest_pc = "insufficient"
        /\ backtest_error = "none"
        /\ ~ForecasterCalled

\* two rows on one day, test_days 1: one calendar day, insufficient
C14_WitnessRows ==
    /\ backtest_pc = "insufficient"
    /\ Len(backtest_df) = 2 /\ SeriesLength = 1 /\ test_days = 1
    /\ ~ForecasterCalled

\* no rows, test_days 2 >= 0: ValueError instead of the insufficient-data outcome
C14_Witness ==
    /\ backtest_df = <<>>
    /\ test_days = 2
    /\ SeriesLength = 0
    /\ backtest_pc = "raised"
    /\ backtest_error = "ValueError"

----------------------------------------------------------------------------
AfterSplit == backtest_pc \in {"forecast", "metrics", "returned"}
AfterMerge == backtest_pc \in {"metrics", "returned"}

(* C15: for 0 < test_days < length of the daily series, train is the       *)
(* series without its last test_days days and test those last days; the    *)
(* Forecast dates generate_forecast produces from train are exactly the    *)
(* test dates (also when train ends in zero-filled days), the comparison   *)
(* table has test_days rows, one per test date in ascending order, each    *)
(* with that day's actual total, and train_last_date is the day before the *)
(* first test date.                                                        *)
C15_SplitAligned ==
    (AfterSplit /\ test_days > 0) =>
        LET last == BacktestLastDay
            first == BacktestFirstDay
            test_date(i) == last - test_days + i
        IN /\ test_days < SeriesLength
           /\ Len(train_df) = SeriesLength - test_days
           /\ \A i \in 1..Len(train_df) :
                 /\ train_df[i].date = first + i - 1
                 /\ train_df[i].value = ActualOn(first + i - 1)
           /\ Len(test_df) = test_days
           /\ \A i \in 1..Len(test_df) :
                 /\ test_df[i].date = test_date(i)
                 /\ test_df[i].value = ActualOn(test_date(i))
           /\ Returned =>
                 /\ Len(ForecastRows) = test_days
                 /\ \A i \in 1..test_days : ForecastRows[i].date = test_date(i)
           /\ AfterMerge =>
                 /\ Len(comparison) = test_days
                 /\ \A i \in 1..Len(comparison) :
                       /\ comparison[i].date = test_date(i)
                       /\ comparison[i].actual = ActualOn(test_date(i))
                       /\ comparison[i].predicted = ForecastRows[i].value
           /\ backtest_pc = "returned" => train_last_date = test_date(1) - 1

\* observations on day 0 and day 2 only, in reverse order: train ends in the
\* zero-filled day 1 and the only test date is day 2
C15_Witness ==
    /\ backtest_pc = "returned"
    /\ test_days = 1
    /\ Len(backtest_df) = 2
    /\ backtest_df[1].date.day = 2 /\ backtest_df[2].date.day = 0
    /\ backtest_df[1].value = 2
    /\ train_df = <<[date |-> 0, value |-> backtest_df[2].value], [date |-> 1, value |-> 0]>>
    /\ Len(comparison) = 1
    /\ comparison[1].date = 2 /\ comparison[1].actual = 2
    /\ train_last_date = 1

----------------------------------------------------------------------------
RECURSIVE PercentageErrorSum(_)
\* over rows 1..n with actual # 0: the sum of |actual - predicted| / actual * 100
PercentageErrorSum(n) ==
    IF n = 0 THEN Q(0)
    ELSE QAdd(PercentageErrorSum(n - 1),
              IF comparison[n].actual = 0 THEN Q(0)
              ELSE QMul(QDiv(QAbs(QSub(Q(comparison[n].actual), comparison[n].predicted)),
                             Q(comparison[n].actual)),
                        Q(100)))

RECURSIVE AbsolutePercentageErrorSum(_)
\* over rows 1..n with actual # 0: the sum of |actual - predicted| / |actual| * 100
AbsolutePercentageErrorSum(n) ==
    IF n = 0 THEN Q(0)
    ELSE QAdd(AbsolutePercentageErrorSum(n - 1),
              IF comparison[n].actual = 0 THEN Q(0)
              ELSE QMul(QDiv(QAbs(QSub(Q(comparison[n].actual), comparison[n].predicted)),
                             Q(Abs(comparison[n].actual))),
                        Q(100)))

NonZeroRows == {i \in DOMAIN comparison : comparison[i].actual # 0}

\* the comparison table is exactly these actual and predicted columns
Compared(actuals, predictions) ==
    /\ Len(comparison) = Len(actuals)
    /\ \A i \in 1..Len(comparison) :
          comparison[i].actual = actuals[i] /\ comparison[i].predicted = Q(predictions[i])

(* C16 as stated: MAPE is the mean of |actual - predicted| / actual * 100  *)
(* over the rows with actual != 0, and 0 when every actual is 0.           *)
C16_PercentageOfActual ==
    (backtest_pc = "returned") =>
        mape = IF NonZeroRows = {} THEN Q(0)
               ELSE QDiv(PercentageErrorSum(Len(comparison)), Q(Cardinality(NonZeroRows)))

(* C16 amended: MAPE is the mean of |actual - predicted| / |actual| * 100  *)
(* (the absolute value of the ratio, so a negative actual contributes a    *)
(* positive percentage) taken only over the comparison rows with           *)
(* actual != 0; rows with actual = 0 contribute nothing, and MAPE is       *)
(* exactly 0 when every actual is 0; actual = [0, 100] with                *)
(* predicted = [10, 10] gives 90.                                          *)
C16_PercentageOfAbsoluteActual ==
    (backtest_pc = "returned") =>
        /\ mape = IF NonZeroRows = {} THEN Q(0)
                  ELSE QDiv(AbsolutePercentageErrorSum(Len(comparison)),
                            Q(Cardinality(NonZeroRows)))
        /\ Compared(<<0, 100>>, <<10, 10>>) => mape = Q(90)
        /\ (\A i \in DOMAIN comparison : comparison[i].actual = 0) => mape = Q(0)

\* the zero row is skipped: 90, not 45 and not undefined
C16_Witness ==
    /\ backtest_pc = "returned"
    /\ Compared(<<0, 100>>, <<10, 10>>)
    /\ mape = Q(90)

\* a negative actual: |-20 - 10| / |-20| * 100 = 150
C16_WitnessNegative ==
    /\ backtest_pc = "returned"
    /\ Compared(<<-20>>, <<10>>)
    /\ mape = Q(150)

----------------------------------------------------------------------------
RECURSIVE AbsoluteErrorSum(_)
AbsoluteErrorSum(n) ==
    IF n = 0 THEN Q(0)
    ELSE QAdd(AbsoluteErrorSum(n - 1),
              QAbs(QSub(Q(comparison[n].actual), comparison[n].predicted)))

RECURSIVE SquaredErrorSum(_)
SquaredErrorSum(n) ==
    IF n = 0 THEN Q(0)
    ELSE LET e == QSub(Q(comparison[n].actual), comparison[n].predicted)
         IN QAdd(SquaredErrorSum(n - 1), QMul(e, e))

(* C17: MAE is the mean of |actual - predicted| and RMSE the square root   *)
(* of the mean of (actual - predicted)^2, both over all comparison rows,   *)
(* those with actual = 0 included; actual = [20]*5 with predicted = [15]*5 *)
(* gives MAE = 5, RMSE = 5 and MAPE = 25.                                  *)
C17_ErrorMeans ==
    (backtest_pc = "returned") =>
        LET n == Len(comparison)
        IN /\ mae = QDiv(AbsoluteErrorSum(n), Q(n))
           /\ rmse.sq = QDiv(SquaredErrorSum(n), Q(n))
           /\ rmse.sgn >= 0
           /\ rmse.sgn = 0 <=> rmse.sq = Q(0)
           /\ Compared(<<20, 20, 20, 20, 20>>, <<15, 15, 15, 15, 15>>) =>
                 mae = Q(5) /\ rmse = [sgn |-> 1, sq |-> Q(25)] /\ mape = Q(25)

\* a row with actual 0 counts in MAE and RMSE: (10 + 90) / 2 and (100 + 8100) / 2
C17_Witness ==
    /\ backtest_pc = "returned"
    /\ Compared(<<0, 100>>, <<10, 10>>)
    /\ mae = Q(50)
    /\ rmse = [sgn |-> 1, sq |-> Q(4100)]

\* the five-day example of the tests
C17_WitnessExample ==
    /\ backtest_pc = "returned"
    /\ Compared(<<20, 20, 20, 20, 20>>, <<15, 15, 15, 15, 15>>)
    /\ mae = Q(5) /\ rmse = [sgn |-> 1, sq |-> Q(25)] /\ mape = Q(25)

----------------------------------------------------------------------------
(* generate_smart_insights (forecasting.py, lines 260-343).                *)

MSG_INSUFFICIENT_DATA == "Dados insuficientes para análise detalhada (mínimo 2 semanas)."
INSIGHT_GROWTH == "Crescimento acelerado"
INSIGHT_SLOWDOWN == "Desaceleração recente"
INSIGHT_STABLE == "Estabilidade"
INSIGHT_POSITIVE == "O modelo (ajustado com otimismo) prevê uma performance sólida para o período."
INSIGHT_NEGATIVE == "O modelo prevê uma leve queda. Verifique campanhas ou sazonalidade."
INSIGHT_NEUTRAL == "A previsão indica manutenção do ritmo atual de vendas."
LABEL_FORECAST_TYPE_FORECAST == "Previsão"
LABEL_FORECAST_TYPE_HISTORY == "Histórico"

MinInsightDays == 14   \* len(daily) < 14
TrendWindow == 7       \* daily.tail(7), daily.iloc[-14:-7]

MaxInsightDays == 15     \* longest history given to generate_smart_insights
MaxForecastPoints == 2   \* Forecast-tagged rows of a forecast frame

RECURSIVE SortedSeq(_)
\* sort_index(): the keys in ascending order
SortedSeq(S) ==
    IF S = {} THEN <<>>
    ELSE LET m == MinKey(S) IN <<m>> \o SortedSeq(S \ {m})

\* groupby(date)[value].sum().sort_index(): one entry per observed date
GroupedDaily(rows) ==
    LET grouped == GroupBySum(rows)
        keys == SortedSeq(DOMAIN grouped)
    IN [i \in DOMAIN keys |-> [date |-> keys[i], value |-> grouped[keys[i]]]]

\* daily.tail(7).mean()
InsightRecentAvg(series) == Mean(Values(TailN(series, TrendWindow)))

\* daily.iloc[-14:-7].mean()
InsightPrevAvg(series) ==
    LET n == Len(series)
        lo == IF n > 2 * TrendWindow THEN n - 2 * TrendWindow + 1 ELSE 1
    IN Mean(Values(SubSeq(series, lo, n - TrendWindow)))

\* a percentage computed without the test on prev_avg
TrendPct_unguarded(recent, prev) == QMul(QDiv(QSub(recent, prev), prev), Q(100))

\* lines 298-300
TrendPct(recent, prev) ==
    IF QLt(Q(0), prev) THEN QMul(QDiv(QSub(recent, prev), prev), Q(100)) ELSE Q(0)

\* a trend rule whose thresholds are inclusive
TrendLabels_inclusive(pct) ==
    IF QLe(Q(5), pct) THEN <<INSIGHT_GROWTH>>
    ELSE IF QLe(pct, Q(-5)) THEN <<INSIGHT_SLOWDOWN>>
    ELSE <<INSIGHT_STABLE>>

\* lines 313-321
TrendLabels(pct) ==
    IF QLt(Q(5), pct) THEN <<INSIGHT_GROWTH>>
    ELSE IF QLt(pct, Q(-5)) THEN <<INSIGHT_SLOWDOWN>>
    ELSE <<INSIGHT_STABLE>>

OUTLOOK_UP == <<21, 20>>    \* 1.05
OUTLOOK_DOWN == <<9, 10>>   \* 0.9

\* every row of the frame instead of the Forecast-tagged ones
FutureOnly_all_rows(frame) == frame.rows

\* forecast_df[forecast_df[COL_FORECAST_TYPE] == LABEL_FORECAST_TYPE_FORECAST]
FutureOnly(frame) == SelectSeq(frame.rows, LAMBDA r : r.Type = LABEL_FORECAST_TYPE_FORECAST)

\* lines 336-341
OutlookSentences(future_avg, recent) ==
    IF QLt(QMul(recent, OUTLOOK_UP), future_avg) THEN <<INSIGHT_POSITIVE>>
    ELSE IF QLt(future_avg, QMul(recent, OUTLOOK_DOWN)) THEN <<INSIGHT_NEGATIVE>>
    ELSE <<INSIGHT_NEUTRAL>>

\* len(daily): the number of distinct dates that carry an observation
DaysCounted(rows) == Len(GroupedDaily(rows))

insights_inputs == <<insights_df, forecast_df>>

\* lines 291-293
InsightsTooShort ==
    /\ insights_pc = "start"
    /\ DaysCounted(insights_df) < MinInsightDays
    /\ insights_daily' = GroupedDaily(insights_df)
    /\ text' = MSG_INSUFFICIENT_DATA
    /\ insights_pc' = "returned"
    /\ UNCHANGED <<inputs, pc, forecast_locals, backtest_vars, geocoding_vars,
                   insights_inputs,
                   insights_recent_avg, prev_avg, trend_pct, future_sum, future_daily_avg,
                   horizon_days, trend_desc, insight, insights_error>>

\* lines 291-300
InsightsHistory ==
    /\ insights_pc = "start"
    /\ DaysCounted(insights_df) >= MinInsightDays
    /\ insights_daily' = GroupedDaily(insights_df)
    /\ insights_recent_avg' = InsightRecentAvg(insights_daily')
    /\ prev_avg' = InsightPrevAvg(insights_daily')
    /\ trend_pct' = TrendPct(insights_recent_avg', prev_avg')
    /\ insights_pc' = "forecast"
    /\ UNCHANGED <<inputs, pc, forecast_locals, backtest_vars, geocoding_vars,
                   insights_inputs,
                   future_sum, future_daily_avg, horizon_days, trend_desc, insight, text,
                   insights_error>>

\* line 303 on a frame without the Type column
InsightsMissingType ==
    /\ insights_pc = "forecast"
    /\ ~forecast_df.has_type
    /\ insights_error' = "KeyError"
    /\ insights_pc' = "raised"
    /\ UNCHANGED <<inputs, pc, forecast_locals, backtest_vars, geocoding_vars,
                   insights_inputs,
                   insights_daily, insights_recent_avg, prev_avg, trend_pct, future_sum,
                   future_daily_avg, horizon_days, trend_desc, insight, text>>

\* lines 303-307
InsightsForecast ==
    /\ insights_pc = "forecast"
    /\ forecast_df.has_type
    /\ LET future_only == FutureOnly(forecast_df)
       IN /\ future_sum' = SumQ(Values(future_only))
          /\ future_daily_avg' = MeanQ(Values(future_only))
          /\ horizon_days' = Len(future_only)
    /\ insights_pc' = "text"
    /\ UNCHANGED <<inputs, pc, forecast_locals, backtest_vars, geocoding_vars,
                   insights_inputs,
                   insights_daily, insights_recent_avg, prev_avg, trend_pct, trend_desc,
                   insight, text, insights_error>>

\* lines 310-343
InsightsText ==
    /\ insights_pc = "text"
    /\ trend_desc' = TrendLabels(trend_pct)
    /\ insight' = OutlookSentences(future_daily_avg, insights_recent_avg)
    /\ text' = "analysis"
    /\ insights_pc' = "returned"
    /\ UNCHANGED <<inputs, pc, forecast_locals, backtest_vars, geocoding_vars,
                   insights_inputs,
                   insights_daily, insights_recent_avg, prev_avg, trend_pct, future_sum,
                   future_daily_avg, horizon_days, insights_error>>

\* one row per day over len days: value v1 before the last 7 days, v2 on them
Blocks(len, v1, v2) ==
    [i \in 1..len |-> Row(i - 1, "00:00", IF i <= len - TrendWindow THEN v1 ELSE v2)]

PrevVals == {-100, 0, 100}
RecentVals == {94, 95, 100, 105, 106}

BlockHistories ==
    {Blocks(len, v1, v2) :
        len \in (MinInsightDays - 1)..MaxInsightDays, v1 \in PrevVals, v2 \in RecentVals}

\* two observations whose dates span 13 to MaxInsightDays calendar days
SpanHistories ==
    {<<Row(0, "00:00", 100), Row(gap, "13:30", 100)>> :
        gap \in (MinInsightDays - 2)..(MaxInsightDays - 1)}

\* 14 rows on 13 days: the last day is observed twice
RepeatedDayHistory ==
    Blocks(MinInsightDays - 1, 100, 100) \o <<Row(MinInsightDays - 2, "13:30", 100)>>

\* MaxInsightDays days of 100 with one inner day missing: 14 or more observed
\* dates and a gap
GapHistories ==
    {SelectSeq(Blocks(MaxInsightDays, 100, 100), LAMBDA r : r.date.day # missing) :
        missing \in 1..(MaxInsightDays - 2)}

InsightHistories ==
    BlockHistories \cup SpanHistories \cup {RepeatedDayHistory} \cup GapHistories

ForecastVals == {Q(89), Q(90), Q(104), Q(105), Q(106)}

\* a result of generate_forecast: one Historical row, then the Forecast rows
TaggedFrame(values) ==
    [has_type |-> TRUE,
     rows |-> <<[date |-> 0, value |-> Q(1000), Type |-> LABEL_FORECAST_TYPE_HISTORY]>>
              \o [i \in DOMAIN values |->
                    [date |-> i, value |-> values[i], Type |-> LABEL_FORECAST_TYPE_FORECAST]]]

\* pd.DataFrame(): no rows and no Type column
EmptyFrame == [has_type |-> FALSE, rows |-> <<>>]

ForecastFrames ==
    {TaggedFrame(v) : v \in UNION {[1..n -> ForecastVals] : n \in 0..MaxForecastPoints}}
    \cup {EmptyFrame}

InitInsights ==
    /\ insights_df \in InsightHistories
    /\ forecast_df \in ForecastFrames
    /\ insights_pc = "start"
    /\ InsightsLocals
    /\ BacktestIdle
    /\ GeocodingIdle
    /\ df = <<>>
    /\ algorithm = UNKNOWN_ALGO
    /\ full_horizon_days = 0
    /\ PROPHET_AVAILABLE = TRUE
    /\ STATSMODELS_AVAILABLE = TRUE
    /\ pc = "idle"
    /\ ForecastLocals

NextInsights ==
    \/ InsightsTooShort
    \/ InsightsHistory
    \/ InsightsMissingType
    \/ InsightsForecast
    \/ InsightsText

SpecInsights == InitInsights /\ [][NextInsights]_vars

----------------------------------------------------------------------------
(* Vocabulary of the properties of generate_smart_insights.                *)

InsightDays == {insights_df[i].date.day : i \in DOMAIN insights_df}

\* calendar days from the first to the last observation of the history
InsightSpan ==
    (CHOOSE d \in InsightDays : \A e \in InsightDays : d >= e)
    - (CHOOSE d \in InsightDays : \A e \in InsightDays : d <= e) + 1

PastLengthTest == insights_pc \in {"forecast", "text", "returned", "raised"}
Analysed == insights_pc = "returned" /\ text = "analysis"

\* nothing was read or computed from the forecast frame
ForecastUntouched ==
    /\ future_sum = Q(0) /\ IsNaN(future_daily_avg) /\ horizon_days = 0
    /\ trend_desc = <<>> /\ insight = <<>>
    /\ insights_error = "none"

(* C18 as stated: the insufficient-data sentinel is returned exactly when  *)
(* the gap-filled daily series of the history spans fewer than 14 calendar *)
(* days, and then nothing is read or computed from the forecast frame (a   *)
(* frame without rows and without Type column is accepted).                *)
C18_SentinelBySpan ==
    PastLengthTest =>
        /\ (text = MSG_INSUFFICIENT_DATA) <=> (InsightSpan < 14)
        /\ (InsightSpan < 14) => (insights_pc = "returned" /\ ForecastUntouched)

\* the part of C18 the code keeps: the same with the number of distinct
\* observed dates in place of the calendar span
C18_SentinelByDates ==
    PastLengthTest =>
        /\ (text = MSG_INSUFFICIENT_DATA) <=> (Cardinality(InsightDays) < 14)
        /\ (Cardinality(InsightDays) < 14) => (insights_pc = "returned" /\ ForecastUntouched)

\* two observations 13 days apart span 14 calendar days: sentinel all the same
C18_Witness ==
    /\ insights_pc = "returned"
    /\ text = MSG_INSUFFICIENT_DATA
    /\ Len(insights_df) = 2
    /\ InsightSpan = 14
    /\ Len(insights_daily) = 2

\* 13 days and a frame without Type column: the sentinel, no KeyError
C18_WitnessEmptyFrame ==
    /\ insights_pc = "returned"
    /\ text = MSG_INSUFFICIENT_DATA
    /\ InsightSpan = 13 /\ Len(insights_df) = 14
    /\ forecast_df = EmptyFrame
    /\ ForecastUntouched

----------------------------------------------------------------------------
(* C19: the trend label follows trend_pct by strict inequalities: above 5  *)
(* accelerating growth, below -5 recent slowdown, anything else (5 and -5  *)
(* themselves included) stable; exactly one trend label is written.        *)
C19_TrendBuckets ==
    /\ ~Analysed => trend_desc = <<>>
    /\ Analysed =>
          /\ Len(trend_desc) = 1
          /\ QLt(Q(5), trend_pct) => trend_desc[1] = INSIGHT_GROWTH
          /\ QLt(trend_pct, Q(-5)) => trend_desc[1] = INSIGHT_SLOWDOWN
          /\ (QLe(Q(-5), trend_pct) /\ QLe(trend_pct, Q(5))) =>
                trend_desc[1] = INSIGHT_STABLE

\* previous week 100 a day, last week 105 a day: exactly 5, stable
C19_Witness ==
    /\ Analysed
    /\ prev_avg = Q(100) /\ insights_recent_avg = Q(105)
    /\ trend_pct = Q(5)
    /\ trend_desc = <<INSIGHT_STABLE>>

\* exactly -5: stable
C19_WitnessLower ==
    /\ Analysed
    /\ prev_avg = Q(100) /\ insights_recent_avg = Q(95)
    /\ trend_pct = Q(-5)
    /\ trend_desc = <<INSIGHT_STABLE>>

\* 6 and -6: growth and slowdown
C19_WitnessGrowth ==
    Analysed /\ trend_pct = Q(6) /\ trend_desc = <<INSIGHT_GROWTH>>

C19_WitnessSlowdown ==
    Analysed /\ trend_pct = Q(-6) /\ trend_desc = <<INSIGHT_SLOWDOWN>>

----------------------------------------------------------------------------
\* among rows 1..n of the forecast frame, the Forecast-tagged ones
RECURSIVE TaggedCount(_)
TaggedCount(n) ==
    IF n = 0 THEN 0
    ELSE TaggedCount(n - 1)
         + (IF forecast_df.rows[n].Type = "Previsão" THEN 1 ELSE 0)

RECURSIVE TaggedSum(_)
TaggedSum(n) ==
    IF n = 0 THEN Q(0)
    ELSE QAdd(TaggedSum(n - 1),
              IF forecast_df.rows[n].Type = "Previsão" THEN forecast_df.rows[n].value
              ELSE Q(0))

\* the sum of the last k entries of the history's per-date series
RECURSIVE LastEntriesSum(_)
LastEntriesSum(k) ==
    IF k = 0 THEN 0
    ELSE insights_daily[Len(insights_daily) - k + 1].value + LastEntriesSum(k - 1)

(* C20: the outlook compares future_daily_avg, the mean of the             *)
(* Forecast-tagged values, with recent_avg, the mean of the last 7 entries *)
(* of the history's daily series: strictly above recent_avg * 1.05         *)
(* positive, strictly below recent_avg * 0.9 negative, otherwise (both     *)
(* boundaries included) neutral; exactly one outlook sentence is written,  *)
(* and horizon_days is the number of Forecast-tagged points.               *)
C20_Outlook ==
    /\ ~Analysed => insight = <<>>
    /\ Analysed =>
          LET points == TaggedCount(Len(forecast_df.rows))
              average == QDiv(TaggedSum(Len(forecast_df.rows)), Q(points))
              recent == Norm(LastEntriesSum(7), 7)
          IN /\ horizon_days = points
             /\ future_daily_avg = average
             /\ insights_recent_avg = recent
             /\ Len(insight) = 1
             /\ QLt(QMul(recent, <<21, 20>>), average) => insight[1] = INSIGHT_POSITIVE
             /\ QLt(average, QMul(recent, <<9, 10>>)) => insight[1] = INSIGHT_NEGATIVE
             /\ ~QLt(QMul(recent, <<21, 20>>), average)
                /\ ~QLt(average, QMul(recent, <<9, 10>>)) => insight[1] = INSIGHT_NEUTRAL

\* recent_avg 100, forecast 104 and 106 beside a Historical row: mean 105, neutral
C20_Witness ==
    /\ Analysed
    /\ insights_recent_avg = Q(100)
    /\ Len(forecast_df.rows) = 3
    /\ forecast_df.rows[2].value # forecast_df.rows[3].value
    /\ horizon_days = 2
    /\ future_daily_avg = Q(105)
    /\ insight = <<INSIGHT_NEUTRAL>>

\* the lower boundary: recent_avg 100, forecast mean 90, neutral
C20_WitnessLower ==
    /\ Analysed
    /\ insights_recent_avg = Q(100)
    /\ future_daily_avg = Q(90)
    /\ insight = <<INSIGHT_NEUTRAL>>

C20_WitnessPositive ==
    Analysed /\ insights_recent_avg = Q(100) /\ future_daily_avg = Q(106)
        /\ insight = <<INSIGHT_POSITIVE>>

C20_WitnessNegative ==
    Analysed /\ insights_recent_avg = Q(100) /\ future_daily_avg = Q(89)
        /\ insight = <<INSIGHT_NEGATIVE>>

\* no Forecast-tagged point: the mean is undefined, the outlook neutral
C20_WitnessNoPoints ==
    Analysed /\ horizon_days = 0 /\ IsNaN(future_daily_avg)
        /\ insight = <<INSIGHT_NEUTRAL>>

----------------------------------------------------------------------------
(* Finite outputs and degenerate inputs.                                   *)

Finite(q) == ~IsNaN(q)

\* the Forecast values generate_forecast returns
FiniteForecast == Returned => \A i \in DOMAIN ForecastRows : Finite(ForecastRows[i].value)

\* the metrics and the comparison table run_backtest returns
FiniteBacktest ==
    backtest_pc = "returned" =>
        /\ Finite(mae) /\ rmse # RootNaN /\ Finite(mape)
        /\ \A i \in DOMAIN comparison :
              Finite(Q(comparison[i].actual)) /\ Finite(comparison[i].predicted)

\* the numbers generate_smart_insights writes into its text
FiniteInsights ==
    Analysed => Finite(trend_pct) /\ Finite(future_sum) /\ Finite(future_daily_avg)

\* C21: no NaN appears in any output: the Forecast values of
\* generate_forecast, the mae / rmse / mape and the comparison values of
\* run_backtest, and the trend percentage, total and daily average written by
\* generate_smart_insights are all finite, also for a forecast frame without
\* any Forecast-tagged point.
C21_FiniteOutputs == FiniteForecast /\ FiniteBacktest /\ FiniteInsights

\* what the code keeps: the outputs of generate_forecast and of run_backtest
\* are finite, and so are the trend percentage and the total of the insights
C21_FiniteButDailyAverage ==
    /\ FiniteForecast
    /\ FiniteBacktest
    /\ Analysed =>
          /\ Finite(trend_pct) /\ Finite(future_sum)
          /\ IsNaN(future_daily_avg) <=> horizon_days = 0

\* a typed forecast frame holding only its Historical row: the text is
\* written with an undefined daily average
C21_Witness ==
    /\ Analysed
    /\ forecast_df.has_type /\ forecast_df.rows # <<>>
    /\ FutureOnly(forecast_df) = <<>>
    /\ future_sum = Q(0)
    /\ IsNaN(future_daily_avg)

\* finite forecasts and metrics are really produced
C21_WitnessBacktest ==
    /\ backtest_pc = "returned" /\ Len(comparison) = MaxTestDays
    /\ Finite(mae) /\ Finite(mape) /\ mae # Q(0)

\* a single daily value, or the same value on every day (all-zero included)
Degenerate ==
    /\ daily # <<>>
    /\ \A i \in DOMAIN daily : daily[i].value = daily[1].value

\* the call got past the model stage and raised at the noise scale (line 155)
RaisedAtNoiseScale == pc = "raised" /\ error = "ValueError" /\ noise_scale.sgn < 0

\* C22: a degenerate input (an all-zero series, a single observation, a
\* constant series of any sign) never makes generate_forecast raise from its
\* mean, standard-deviation, ratio or noise-scale computations: with a
\* model library at hand the call does not end in an exception.
C22_DegenerateNeverRaises ==
    (Degenerate /\ ~UnavailableSelected) => pc # "raised"

\* what the code keeps: a degenerate series that is not negative never
\* raises, and a raise after the model stage is the negative noise scale of a
\* series whose substituted standard deviation recent_avg * 0.1 is negative
C22_NonNegativeNeverRaises ==
    /\ (Degenerate /\ daily[1].value >= 0 /\ ~UnavailableSelected) => pc # "raised"
    /\ (pc = "raised" /\ daily # <<>> /\ ~UnavailableSelected) =>
          /\ RaisedAtNoiseScale
          /\ QLt(recent_avg, Q(0))
          /\ hist_std = RootOf(QMul(recent_avg, DEFAULT_STD_RATIO))

\* the constant series -1, -1 with a positive horizon: the standard deviation
\* is 0, the substitute -0.1, and np.random.normal rejects the scale -0.03
C22_Witness ==
    /\ Len(daily) = 2 /\ daily[1].value = -1 /\ daily[2].value = -1
    /\ full_horizon_days > 0
    /\ Len(forecast_values) = full_horizon_days
    /\ RaisedAtNoiseScale

\* a single negative observation: the standard deviation is undefined
C22_WitnessSingle ==
    /\ Len(df) = 1 /\ Len(daily) = 1 /\ daily[1].value = -1
    /\ RaisedAtNoiseScale

----------------------------------------------------------------------------
\* generate_forecast, called by run_backtest, has aggregated the train part
NestedAggregated ==
    /\ backtest_pc \in {"forecast", "metrics", "returned", "raised"}
    /\ train_df # <<>>
    /\ pc \notin {"idle", "start"}

\* C23: aggregation is idempotent: the daily series generate_forecast builds
\* from the gap-free train part run_backtest hands it has the dates and the
\* per-day values of that train part, zero-valued days at either end
\* included; and aggregating run_backtest's whole daily series again gives
\* that series back.
C23_IdempotentAggregation ==
    /\ NestedAggregated => daily = train_df
    /\ backtest_daily # <<>> => AggregateDaily(AsRows(backtest_daily)) = backtest_daily

\* a train part that starts with an observed zero day and ends with a
\* gap-filled zero day
C23_Witness ==
    /\ NestedAggregated
    /\ Len(train_df) = 2
    /\ train_df[1].value = 0 /\ train_df[2].value = 0
    /\ ActualOn(train_df[2].date) = 0
    /\ \A i \in DOMAIN backtest_df : backtest_df[i].date.day # train_df[2].date
    /\ daily = train_df

----------------------------------------------------------------------------
\* the factor of the capped lift for a first raw value below the average
CappedFactor(first, avg) ==
    LET gap == QDiv(QSub(avg, first), first)
    IN QAdd(Q(1), IF QLt(gap, <<1, 5>>) THEN gap ELSE <<1, 5>>)

C24_WitnessNoBias ==
    /\ AfterBias
    /\ QLt(Q(0), recent_avg)
    /\ forecast_values = <<Q(0), Q(1)>>
    /\ biased_forecast = forecast_values

----------------------------------------------------------------------------
HoltWintersFitted == lib_called = "statsmodels"

\* two full weekly cycles of history: a season of period 7 can be estimated
TwoWeeklyCycles == Len(daily) >= 2 * 7

\* C25: the exponential-smoothing variant first fits a model with an
\* additive trend and an additive weekly season (period 7); a trend-only
\* model is fitted only after it, when the season cannot be estimated.
C25_SeasonalFirst ==
    HoltWintersFitted =>
        /\ Len(model) \in {1, 2}
        /\ model[1] = ExponentialSmoothing("add", "add", 7)
        /\ Len(model) = 2 =>
              /\ model[2] = ExponentialSmoothing("add", NoSeasonal, NoPeriods)
              /\ ~TwoWeeklyCycles

\* what the code does: one model, trend-only, whatever the history
C25_TrendOnly ==
    /\ HoltWintersFitted => model = <<ExponentialSmoothing("add", NoSeasonal, NoPeriods)>>
    /\ ~HoltWintersFitted => model = <<>>

\* a history of more than four weeks forecast by the exponential-smoothing
\* variant: the only model fitted has no seasonal component
C25_Witness ==
    /\ Returned
    /\ algorithm = ALGORITHM_HOLT_WINTERS
    /\ TwoWeeklyCycles
    /\ Len(ForecastRows) = MaxHorizon
    /\ Len(model) = 1
    /\ model[1].trend = "add" /\ model[1].seasonal = NoSeasonal

----------------------------------------------------------------------------
\* the mean of the last 30 values of the train part (all of them when fewer)
TrainRecentAvg == MeanQ([i \in DOMAIN TailN(train_df, RecentWindow) |->
                            Q(TailN(train_df, RecentWindow)[i].value)])

\* C26: run_backtest scores the whole pipeline: generate_forecast is called
\* on the train part with horizon test_days, and the predicted column of the
\* comparison table holds the Forecast values that call returns, i.e. the raw
\* model output after the bias, the floor, the call's noise draws and the
\* non-negativity clamp, not the raw output.
C26_ScoresPipeline ==
    (AfterMerge /\ test_days > 0) =>
        /\ df = AsRows(train_df)
        /\ full_horizon_days = test_days
        /\ [i \in DOMAIN comparison |-> comparison[i].predicted] = final_values
        /\ DOMAIN comparison = DOMAIN forecast_values
        /\ \A i \in DOMAIN comparison :
              LET lifted == QMul(forecast_values[i], QAdd(Q(1), bias_percentage))
                  held == PyMax(lifted, QMul(TrainRecentAvg, <<2, 5>>))
              IN comparison[i].predicted = PyMax(Q(0), QAdd(held, noise[i]))

\* a backtest whose predicted value is not the raw model output: the raw 0
\* is held at the floor of a train part averaging 2 and no noise is added
C26_Witness ==
    /\ backtest_pc = "returned"
    /\ test_days = 1
    /\ TrainRecentAvg = Q(2)
    /\ forecast_values = <<Q(0)>>
    /\ noise = <<Q(0)>>
    /\ comparison[1].predicted = <<4, 5>>
    /\ mae = QAbs(QSub(Q(comparison[1].actual), <<4, 5>>))

----------------------------------------------------------------------------
\* the sum of the observations of rows 1..n of the history made on day d
RECURSIVE SumOfInsightRows(_, _)
SumOfInsightRows(n, d) ==
    IF n = 0 THEN 0
    ELSE (IF insights_df[n].date.day = d THEN insights_df[n].value ELSE 0)
         + SumOfInsightRows(n - 1, d)

InsightTotalOn(d) == SumOfInsightRows(Len(insights_df), d)

InsightLastDay == CHOOSE d \in InsightDays : \A e \in InsightDays : d >= e

\* the mean of the daily totals of the calendar days lo..hi, 0 where unobserved
RECURSIVE CalendarSum(_, _)
CalendarSum(lo, hi) ==
    IF lo > hi THEN 0 ELSE InsightTotalOn(hi) + CalendarSum(lo, hi - 1)

CalendarMean(lo, hi) == QDiv(Q(CalendarSum(lo, hi)), Q(hi - lo + 1))

\* the observed dates in ascending order, and the mean of the totals of the
\* observed dates number lo..hi
ObservedDates == SortedSeq(InsightDays)

RECURSIVE ObservedSum(_, _)
ObservedSum(lo, hi) ==
    IF lo > hi THEN 0 ELSE InsightTotalOn(ObservedDates[hi]) + ObservedSum(lo, hi - 1)

ObservedMean(lo, hi) == QDiv(Q(ObservedSum(lo, hi)), Q(hi - lo + 1))

TrendComputed == insights_pc \in {"forecast", "text", "raised"} \/ Analysed

\* C27: recent_avg is the mean over the last 7 calendar days of the
\* gap-filled daily series and prev_avg the mean over the 7 calendar days
\* before those; a day without observations counts as 0 in its window.
C27_CalendarWindows ==
    TrendComputed =>
        /\ insights_recent_avg =
              CalendarMean(InsightLastDay - TrendWindow + 1, InsightLastDay)
        /\ prev_avg =
              CalendarMean(InsightLastDay - 2 * TrendWindow + 1, InsightLastDay - TrendWindow)

\* what the code does: the windows are the last 7 observed dates and the 7
\* observed dates before them, which are calendar days only without gaps
C27_ObservedWindows ==
    TrendComputed =>
        LET n == Len(ObservedDates)
        IN /\ n >= 2 * TrendWindow
           /\ insights_recent_avg = ObservedMean(n - TrendWindow + 1, n)
           /\ prev_avg = ObservedMean(n - 2 * TrendWindow + 1, n - TrendWindow)
           /\ InsightSpan = n => C27_CalendarWindows

\* 14 observed days of 100 with one day of the last week missing: the last
\* 7 calendar days average 600/7, the code reports 100
C27_Witness ==
    /\ Analysed
    /\ Cardinality(InsightDays) = MinInsightDays
    /\ InsightSpan = MinInsightDays + 1
    /\ \E d \in (InsightLastDay - TrendWindow + 1)..InsightLastDay : d \notin InsightDays
    /\ \A i \in DOMAIN insights_df : insights_df[i].value = 100
    /\ insights_recent_avg = Q(100)
    /\ CalendarMean(InsightLastDay - TrendWindow + 1, InsightLastDay) = <<600, 7>>

----------------------------------------------------------------------------
\* C28: when prev_avg <= 0 (the previous 7 entries sum to zero or less)
\* trend_pct is 0 and the trend written is the stable one, whatever
\* recent_avg is; nothing is divided by prev_avg, so trend_pct is a number.
\* When prev_avg > 0 the percentage is (recent_avg - prev_avg) / prev_avg * 100.
C28_NoTrendWithoutBase ==
    TrendComputed =>
        LET n == Len(ObservedDates)
            prev_sum == ObservedSum(n - 2 * TrendWindow + 1, n - TrendWindow)
        IN /\ Finite(trend_pct)
           /\ prev_sum <= 0 =>
                 /\ trend_pct = Q(0)
                 /\ Analysed => trend_desc = <<INSIGHT_STABLE>>
           /\ prev_sum > 0 =>
                 QMul(trend_pct, prev_avg) = QMul(QSub(insights_recent_avg, prev_avg), Q(100))

\* the previous week all zero and the last week at 106: stable, 0 percent
C28_Witness ==
    /\ Analysed
    /\ prev_avg = Q(0)
    /\ insights_recent_avg = Q(106)
    /\ trend_pct = Q(0)
    /\ trend_desc = <<INSIGHT_STABLE>>

\* a negative previous week: a drop from -100 to 94 is reported as stable
C28_WitnessNegative ==
    /\ Analysed
    /\ prev_avg = Q(-100)
    /\ insights_recent_avg = Q(94)
    /\ trend_pct = Q(0)
    /\ trend_desc = <<INSIGHT_STABLE>>

----------------------------------------------------------------------------
(* GeocodingService.get_coords (geocoding_service.py).  A string is the    *)
(* sequence of its characters; coordinates are kept as written.            *)

GEO_COUNTRY == <<"B", "r", "a", "s", "i", "l">>

MaxCalls == 2

\* str.lower() on the letters the inputs use
Lower(s) ==
    LET lower == ("R" :> "r") @@ ("E" :> "e") @@ ("O" :> "o") @@ ("P" :> "p")
    IN [i \in DOMAIN s |-> IF s[i] \in DOMAIN lower THEN lower[s[i]] ELSE s[i]]

RECURSIVE LStrip(_)
LStrip(s) == IF s # <<>> /\ Head(s) = " " THEN LStrip(Tail(s)) ELSE s

RECURSIVE RStrip(_)
RStrip(s) ==
    IF s # <<>> /\ s[Len(s)] = " " THEN RStrip(SubSeq(s, 1, Len(s) - 1)) ELSE s

\* str.strip(): leading and trailing whitespace removed
Strip(s) == RStrip(LStrip(s))

\* a key built from the arguments as they come
Key_raw(c, s) == c \o <<"|">> \o s

\* line 35: f"{city.strip().lower()}|{state.strip().lower()}"
Key(c, s) == Lower(Strip(c)) \o <<"|">> \o Lower(Strip(s))

\* line 49: f"{city}, {state}, {C.GEO_COUNTRY}"
Query(c, s) == c \o <<",", " ">> \o s \o <<",", " ">> \o GEO_COUNTRY

\* "INSERT OR REPLACE INTO cache (key, lat, lon) VALUES (?, ?, ?)"
InsertOrReplace(table, k, value) ==
    [x \in DOMAIN table \cup {k} |-> IF x = k THEN value ELSE table[x]]

\* the arguments: empty, blank, and spellings of the same and of another place
Cities == {<<>>, <<" ">>, <<"R", "e">>, <<" ", "R", "E", " ">>, <<"O", "l">>}
States == {<<>>, <<"P", "E">>, <<"p", "e", " ">>}

\* what the external geocoder may answer: a location, or None for no match
Locations == {[lat |-> "-8.05", lon |-> "-34.88"], [lat |-> "-23.55", lon |-> "-46.63"]}
GeocoderErrors == {"GeocoderTimedOut", "GeocoderUnavailable"}

forecasting_vars == <<inputs, pc, forecast_locals, backtest_vars, insights_vars>>

\* the bookkeeping of every call
Called(c, s, path) ==
    /\ calls < MaxCalls
    /\ calls' = calls + 1
    /\ city' = c
    /\ state' = s
    /\ outcome' = path
    /\ UNCHANGED forecasting_vars

\* lines 32-33
GetCoordsEmpty ==
    \E c \in Cities, s \in States :
        /\ c = <<>> \/ s = <<>>
        /\ Called(c, s, "empty")
        /\ coords' = NoCoords
        /\ UNCHANGED <<cache, geocoder_queries>>

\* lines 35-46: the key has a row
GetCoordsCached ==
    \E c \in Cities, s \in States :
        /\ c # <<>> /\ s # <<>>
        /\ Key(c, s) \in DOMAIN cache
        /\ Called(c, s, "cached")
        /\ coords' = cache[Key(c, s)]
        /\ UNCHANGED <<cache, geocoder_queries>>

\* lines 35-69: no row, the geocoder answers with a location or with None
GetCoordsLookup ==
    \E c \in Cities, s \in States, loc \in Locations \cup {NoCoords} :
        /\ c # <<>> /\ s # <<>>
        /\ Key(c, s) \notin DOMAIN cache
        /\ Called(c, s, IF loc = NoCoords THEN "not_found" ELSE "found")
        /\ geocoder_queries' = Append(geocoder_queries, Query(c, s))
        /\ cache' = InsertOrReplace(cache, Key(c, s), loc)
        /\ coords' = loc

\* a timeout that leaves a (None, None) row behind
GetCoordsTimedOut_cached ==
    \E c \in Cities, s \in States, exc \in GeocoderErrors :
        /\ c # <<>> /\ s # <<>>
        /\ Key(c, s) \notin DOMAIN cache
        /\ Called(c, s, exc)
        /\ geocoder_queries' = Append(geocoder_queries, Query(c, s))
        /\ cache' = InsertOrReplace(cache, Key(c, s), NoCoords)
        /\ coords' = NoCoords

\* lines 35-56 and 71-73: no row, the geocoder times out or is unavailable
GetCoordsTimedOut ==
    \E c \in Cities, s \in States, exc \in GeocoderErrors :
        /\ c # <<>> /\ s # <<>>
        /\ Key(c, s) \notin DOMAIN cache
        /\ Called(c, s, exc)
        /\ geocoder_queries' = Append(geocoder_queries, Query(c, s))
        /\ coords' = NoCoords
        /\ UNCHANGED cache

\* lines 35-56 and 74-76: no row, the geocoder raises any other exception
GetCoordsError ==
    \E c \in Cities, s \in States :
        /\ c # <<>> /\ s # <<>>
        /\ Key(c, s) \notin DOMAIN cache
        /\ Called(c, s, "Exception")
        /\ geocoder_queries' = Append(geocoder_queries, Query(c, s))
        /\ coords' = NoCoords
        /\ UNCHANGED cache

\* a dashboard session: get_coords is called again and again on one database
InitGeocoding ==
    /\ GeocodingIdle
    /\ df = <<>>
    /\ algorithm = UNKNOWN_ALGO
    /\ full_horizon_days = 0
    /\ PROPHET_AVAILABLE = TRUE
    /\ STATSMODELS_AVAILABLE = TRUE
    /\ pc = "idle"
    /\ ForecastLocals
    /\ BacktestIdle
    /\ InsightsIdle

NextGeocoding ==
    \/ GetCoordsEmpty
    \/ GetCoordsCached
    \/ GetCoordsLookup
    \/ GetCoordsTimedOut
    \/ GetCoordsError

SpecGeocoding == InitGeocoding /\ [][NextGeocoding]_vars

----------------------------------------------------------------------------
(* Vocabulary of the properties of get_coords.                             *)

\* city|state with each part lower-cased and stripped of outer whitespace
NormalKey(c, s) == Strip(Lower(c)) \o <<"|">> \o Strip(Lower(s))

\* this step is a get_coords call; its arguments are city' and state'
GetCoordsStep == calls' = calls + 1

EmptyArgument == city' = <<>> \/ state' = <<>>

Completed == outcome' \in {"found", "not_found"}
Failed == outcome' \in GeocoderErrors \cup {"Exception"}

GeocoderNotCalled == geocoder_queries' = geocoder_queries
GeocoderCalled ==
    geocoder_queries' = Append(geocoder_queries, city' \o <<",", " ">> \o state' \o <<",", " ", "B", "r", "a", "s", "i", "l">>)

\* C29: a call with an empty city or state returns (None, None) and touches
\* neither cache nor geocoder; a lookup that completed (found or not found)
\* stores what it returns under the normalized key; a stored row never
\* changes; and a call whose arguments normalize to a stored key returns
\* that row without calling the geocoder.
C29_CachedLookups ==
    [][GetCoordsStep =>
        LET k == NormalKey(city', state')
        IN /\ EmptyArgument =>
                 coords' = NoCoords /\ cache' = cache /\ GeocoderNotCalled
           /\ Completed =>
                 /\ GeocoderCalled
                 /\ k \in DOMAIN cache' /\ cache'[k] = coords'
                 /\ DOMAIN cache' = DOMAIN cache \cup {k}
           /\ \A x \in DOMAIN cache : x \in DOMAIN cache' /\ cache'[x] = cache[x]
           /\ (~EmptyArgument /\ k \in DOMAIN cache) =>
                 coords' = cache[k] /\ cache' = cache /\ GeocoderNotCalled
      ]_vars

\* the second call spells the place differently from the first, which was
\* found: it gets the stored coordinates and the geocoder saw one query
C29_Witness ==
    /\ calls = 2
    /\ outcome = "cached"
    /\ Len(geocoder_queries) = 1
    /\ geocoder_queries[1] # Query(city, state)
    /\ DOMAIN cache = {NormalKey(city, state)}
    /\ coords = cache[NormalKey(city, state)]
    /\ coords \in Locations

\* a place the geocoder did not find is answered from its (None, None) row
C29_WitnessNotFound ==
    /\ calls = 2
    /\ outcome = "cached"
    /\ Len(geocoder_queries) = 1
    /\ coords = NoCoords
    /\ cache[NormalKey(city, state)] = NoCoords

\* C30: when the geocoder times out, is unavailable or raises any other
\* error the call returns (None, None) and leaves the cache as it was, the
\* key still without a row; a call for a key without a row queries the
\* geocoder; and the cache changes only in a lookup that completed.
C30_FailuresNotCached ==
    [][GetCoordsStep =>
        LET k == NormalKey(city', state')
        IN /\ Failed =>
                 /\ coords' = NoCoords
                 /\ cache' = cache
                 /\ k \notin DOMAIN cache'
                 /\ GeocoderCalled
           /\ (~EmptyArgument /\ k \notin DOMAIN cache) => GeocoderCalled
           /\ cache' # cache => Completed
      ]_vars

\* two queries for the same place and one row: the first call failed, the
\* second asked the geocoder again and found it
C30_Witness ==
    /\ calls = 2
    /\ Len(geocoder_queries) = 2
    /\ geocoder_queries[1] = geocoder_queries[2]
    /\ outcome = "found"
    /\ DOMAIN cache = {NormalKey(city, state)}
    /\ coords \in Locations

\* a failed call: nothing returned, nothing stored
C30_WitnessFailed ==
    /\ calls = 1
    /\ outcome = "GeocoderTimedOut"
    /\ Len(geocoder_queries) = 1
    /\ coords = NoCoords
    /\ cache = <<>>

====
